---- MODULE Spec2Model ----
(***************************************************************************)
(* Model of the tabular ingestion pipeline of the dashboard application    *)
(* (app/dashboard/data_processor.py, class DataProcessor) over the record  *)
(* store declared in app/dashboard/models.py.                              *)
(*                                                                         *)
(* Text (column names, location names, pollutant references, numeric       *)
(* cells) is a sequence of one-character strings, so that lower-casing,    *)
(* trimming, substring search and numeric clean-up are computed character  *)
(* by character as the code computes them.                                 *)
(***************************************************************************)
EXTENDS Integers, Sequences, FiniteSets, TLC

----------------------------------------------------------------------------
(* Text helpers                                                            *)

UpperLetters ==
  << "A","B","C","D","E","F","G","H","I","J","K","L","M",
     "N","O","P","Q","R","S","T","U","V","W","X","Y","Z" >>

LowerLetters ==
  << "a","b","c","d","e","f","g","h","i","j","k","l","m",
     "n","o","p","q","r","s","t","u","v","w","x","y","z" >>

Digits == { "0","1","2","3","4","5","6","7","8","9" }

LowerChar(c) ==
  IF \E i \in 1..26 : UpperLetters[i] = c
  THEN LowerLetters[CHOOSE i \in 1..26 : UpperLetters[i] = c]
  ELSE c

\* str.lower()
Lower(s) == [i \in 1..Len(s) |-> LowerChar(s[i])]

\* str.strip(): leading and trailing blanks removed
RECURSIVE LStrip(_)
LStrip(s) == IF s # << >> /\ Head(s) = " " THEN LStrip(Tail(s)) ELSE s

RECURSIVE RStrip(_)
RStrip(s) ==
  IF s # << >> /\ s[Len(s)] = " " THEN RStrip(SubSeq(s, 1, Len(s) - 1)) ELSE s

Strip(s) == RStrip(LStrip(s))

\* str.replace(' ', '_')
ReplaceBlank(s) == [i \in 1..Len(s) |-> IF s[i] = " " THEN "_" ELSE s[i]]

\* sub in s
Contains(s, sub) ==
  \E i \in 1..(Len(s) - Len(sub) + 1) : SubSeq(s, i, i + Len(sub) - 1) = sub

\* subsequence of the characters of s that satisfy Keep, in order
RECURSIVE FilterChars(_, _)
FilterChars(s, keep) ==
  IF s = << >> THEN << >>
  ELSE IF Head(s) \in keep THEN << Head(s) >> \o FilterChars(Tail(s), keep)
       ELSE FilterChars(Tail(s), keep)

----------------------------------------------------------------------------
(* Header reconciliation: validate_and_clean_dataframe, first half         *)

\* canonical names of the four required columns
LocationCol == << "l", "o", "c", "a", "t", "i", "o", "n" >>
PollutantCol == << "p", "o", "l", "l", "u", "t", "a", "n", "t" >>
ConcentrationCol == << "c", "o", "n", "c", "e", "n", "t", "r", "a", "t", "i", "o", "n" >>
DateCol == << "d", "a", "t", "e" >>

\* required_cols, in the order the code lists them
required_cols == << LocationCol, PollutantCol, ConcentrationCol, DateCol >>

\* required_mappings: canonical name and its accepted alias substrings,
\* in the insertion order of the dictionary
required_mappings ==
  << [standard_name |-> LocationCol, possible_names |->
      << << "l", "o", "c", "a", "t", "i", "o", "n" >>,
         << "s", "i", "t", "e" >>,
         << "l", "o", "c", "a", "t", "i", "o", "n", "_", "n", "a", "m", "e" >>,
         << "s", "i", "t", "e", "_", "n", "a", "m", "e" >> >>],
     [standard_name |-> PollutantCol, possible_names |->
      << << "p", "o", "l", "l", "u", "t", "a", "n", "t" >>,
         << "p", "a", "r", "a", "m", "e", "t", "e", "r" >>,
         << "p", "o", "l", "l", "u", "t", "a", "n", "t", "_", "n", "a", "m", "e" >>,
         << "p", "a", "r", "a", "m", "e", "t", "e", "r", "_", "n", "a", "m", "e" >> >>],
     [standard_name |-> ConcentrationCol, possible_names |->
      << << "c", "o", "n", "c", "e", "n", "t", "r", "a", "t", "i", "o", "n" >>,
         << "v", "a", "l", "u", "e" >>,
         << "r", "e", "s", "u", "l", "t" >>,
         << "m", "e", "a", "s", "u", "r", "e", "m", "e", "n", "t" >> >>],
     [standard_name |-> DateCol, possible_names |->
      << << "d", "a", "t", "e" >>,
         << "s", "a", "m", "p", "l", "i", "n", "g", "_", "d", "a", "t", "e" >>,
         << "m", "e", "a", "s", "u", "r", "e", "m", "e", "n", "t", "_", "d", "a", "t", "e" >>,
         << "d", "a", "t", "e", "t", "i", "m", "e" >> >>] >>

Range(f) == { f[i] : i \in DOMAIN f }

\* df.columns.str.lower().str.strip().str.replace(' ', '_')
NormalizeColumns(columns) ==
  [i \in 1..Len(columns) |-> ReplaceBlank(Strip(Lower(columns[i])))]

\* any(name in col for name in possible_names)
MatchesAny(col, possible_names) ==
  \E k \in 1..Len(possible_names) : Contains(col, possible_names[k])

\* index of the first column that matches one of the aliases, 0 when none
FirstMatch(columns, possible_names) ==
  IF \E i \in 1..Len(columns) : MatchesAny(columns[i], possible_names)
  THEN CHOOSE i \in 1..Len(columns) :
         /\ MatchesAny(columns[i], possible_names)
         /\ \A j \in 1..(i - 1) : ~MatchesAny(columns[j], possible_names)
  ELSE 0

\* column_mapping after the first k entries of required_mappings: a set of
\* <<column, standard_name>> pairs with at most one pair per column; a later
\* assignment to the same column replaces the earlier one
RECURSIVE column_mapping_upto(_, _)
column_mapping_upto(columns, k) ==
  IF k = 0 THEN { }
  ELSE LET prev == column_mapping_upto(columns, k - 1)
           m == required_mappings[k]
           i == FirstMatch(columns, m.possible_names)
       IN IF i = 0 THEN prev
          ELSE { p \in prev : p[1] # columns[i] }
                 \cup { << columns[i], m.standard_name >> }

column_mapping(columns) == column_mapping_upto(columns, Len(required_mappings))

\* df.rename(columns=column_mapping)
RenameColumns(columns) ==
  LET cm == column_mapping(columns)
  IN [i \in 1..Len(columns) |->
        IF \E p \in cm : p[1] = columns[i]
        THEN (CHOOSE p \in cm : p[1] = columns[i])[2]
        ELSE columns[i]]

\* the columns of the frame after normalisation and renaming
ReconciledColumns(header) == RenameColumns(NormalizeColumns(header))

\* missing_cols = [col for col in required_cols if col not in df.columns],
\* for the frame's columns after renaming
IsAbsentFrom(cols) == [c \in Range(required_cols) |-> c \notin Range(cols)]

missing_cols(columns) ==
  LET absent == IsAbsentFrom(columns)
      Test(c) == absent[c]
  IN SelectSeq(required_cols, Test)

----------------------------------------------------------------------------
(* Cell values                                                             *)

\* A text cell of the frame: na marks a missing cell (NaN), text its
\* characters otherwise.
NaCell == [na |-> TRUE, text |-> << >>]

TextCell(s) == [na |-> FALSE, text |-> s]

\* A float is the decimal n / 10^e, kept without trailing fractional zeros
\* (exact for the short decimals of the model, which a double round-trips);
\* nan marks NaN, which is what None becomes in a numeric column.
NaN == [nan |-> TRUE, n |-> 0, e |-> 0]

\* the float of a whole number
Num(k) == [nan |-> FALSE, n |-> k, e |-> 0]

\* the characters "less-or-equal" and "greater-or-equal" are written "le", "ge"
ComparisonGlyphs == { "<", ">", "le", "ge" }

DigitSeq == << "0","1","2","3","4","5","6","7","8","9" >>

DigitValue(c) == (CHOOSE i \in 1..10 : DigitSeq[i] = c) - 1

\* value of a string of digits read as a decimal integer
RECURSIVE DigitsValue(_)
DigitsValue(ds) ==
  IF ds = << >> THEN 0
  ELSE 10 * DigitsValue(SubSeq(ds, 1, Len(ds) - 1)) + DigitValue(ds[Len(ds)])

RECURSIVE NormalizeFloat(_, _)
NormalizeFloat(n, e) ==
  IF e > 0 /\ n % 10 = 0 THEN NormalizeFloat(n \div 10, e - 1)
  ELSE [nan |-> FALSE, n |-> n, e |-> e]

\* float(str_value) for a string of digits, dots and minus signs:
\* an optional leading minus, at least one digit, at most one dot;
\* NaN stands for the ValueError that the caller turns into None
ParseFloat(str) ==
  LET neg == str # << >> /\ Head(str) = "-"
      body == IF neg THEN Tail(str) ELSE str
      digits == FilterChars(body, Digits)
      dots == FilterChars(body, { "." })
      dotAt == CHOOSE i \in 1..Len(body) : body[i] = "."
      e == IF dots = << >> THEN 0 ELSE Len(body) - dotAt
      mag == DigitsValue(digits)
  IN IF \/ digits = << >>
        \/ Len(dots) > 1
        \/ Contains(body, << "-" >>)
     THEN NaN
     ELSE NormalizeFloat(IF neg THEN 0 - mag ELSE mag, e)

\* clean_numeric_value
clean_numeric_value(value) ==
  IF value.na THEN NaN
  ELSE LET stripped == Strip(value.text)
           noGlyphs == FilterChars(stripped,
                         Range(stripped) \ ComparisonGlyphs)
           str_value == FilterChars(noGlyphs, Digits \cup { ".", "-" })
       IN IF str_value = << >> THEN NaN ELSE ParseFloat(str_value)

\* validate_concentration without the test for a negative value
validate_concentration_unsigned(concentration) ==
  IF concentration.nan THEN NaN ELSE concentration

\* validate_concentration: NaN (None) for a missing or a negative value
validate_concentration(concentration) ==
  IF concentration.nan THEN NaN
  ELSE IF concentration.n < 0 THEN NaN
  ELSE concentration

\* A date cell: missing, or a text that parses to day number day when
\* parses holds.  NaT is the unparsable or missing timestamp.
NaT == [nat |-> TRUE, day |-> 0]

\* pd.to_datetime(..., errors='coerce') on one cell
to_datetime(cell) ==
  IF cell.na \/ ~cell.parses THEN NaT ELSE [nat |-> FALSE, day |-> cell.day]

----------------------------------------------------------------------------
(* The record store: PollutantType and Location look-ups                   *)

\* the user the DataProcessor was constructed for, and another user
User == "u1"
OtherUser == "u2"

\* The PollutantType table, in the model's default ordering
\* (Meta.ordering = category, name); a pollutant's id is its position.
\* A regulatory standard is a nullable decimal: NaN stands for null.
PollutantType ==
  << [name |-> << "L", "e", "a", "d" >>, chemical_formula |-> << "P", "b" >>, is_active |-> TRUE,
      who_standard |-> Num(3), nesrea_standard |-> Num(0), epa_standard |-> NaN],
     [name |-> << "O", "z", "o", "n", "e" >>, chemical_formula |-> << "O", "3" >>, is_active |-> TRUE,
      who_standard |-> NaN, nesrea_standard |-> NaN, epa_standard |-> Num(1)],
     [name |-> << "R", "a", "d", "o", "n" >>, chemical_formula |-> << "R", "n" >>, is_active |-> FALSE,
      who_standard |-> NaN, nesrea_standard |-> NaN, epa_standard |-> NaN] >>

\* outcome of a call that returns an object id (0 for None) or raises exc
Returned(id) == [exc |-> "", id |-> id]
Raised(exc) == [exc |-> exc, id |-> 0]

\* QuerySet.get(): the single match, DoesNotExist, MultipleObjectsReturned
QueryGet(ids) ==
  IF ids = { } THEN Raised("DoesNotExist")
  ELSE IF Cardinality(ids) = 1 THEN Returned(CHOOSE i \in ids : TRUE)
  ELSE Raised("MultipleObjectsReturned")

\* QuerySet.first() of an ordered query set of positions: None when empty
QueryFirst(ids) ==
  IF ids = { } THEN Returned(0)
  ELSE Returned(CHOOSE i \in ids : \A j \in ids : i <= j)

\* name__iexact=..., is_active=True
PollutantsByName(pollutant_name) ==
  { i \in DOMAIN PollutantType :
      /\ PollutantType[i].is_active
      /\ Lower(PollutantType[i].name) = Lower(pollutant_name) }

\* name__icontains=..., is_active=True
PollutantsByPartialName(pollutant_name) ==
  { i \in DOMAIN PollutantType :
      /\ PollutantType[i].is_active
      /\ Contains(Lower(PollutantType[i].name), Lower(pollutant_name)) }

\* chemical_formula__iexact=..., is_active=True
PollutantsByFormula(pollutant_name) ==
  { i \in DOMAIN PollutantType :
      /\ PollutantType[i].is_active
      /\ Lower(PollutantType[i].chemical_formula) = Lower(pollutant_name) }

\* get_pollutant_type: the exact match when there is one; otherwise the
\* function returns whatever filter(...).first() gives, None included.
\* first() never raises DoesNotExist, so the formula look-up that follows
\* the second return statement is not reached.
get_pollutant_type(name) ==
  LET pollutant_name == Strip(name)
      exact == QueryGet(PollutantsByName(pollutant_name))
  IN IF exact.exc # "DoesNotExist" THEN exact
     ELSE QueryFirst(PollutantsByPartialName(pollutant_name))

\* A coordinate argument: None when the row has no such column
NoCoord == [none |-> TRUE, deg |-> 0]

Coord(d) == [none |-> FALSE, deg |-> d]

\* truth value of a coordinate in "if latitude and longitude"
Truthy(c) == ~c.none /\ c.deg # 0

\* a look-up by name that distinguishes upper and lower case
LocationsByName_case_sensitive(locations, location_name) ==
  { l.id : l \in { x \in locations :
                     /\ x.created_by = User
                     /\ x.name = Strip(location_name) } }

\* name__iexact=location_name.strip(), created_by=self.user
LocationsByName(locations, location_name) ==
  { l.id : l \in { x \in locations :
                     /\ x.created_by = User
                     /\ Lower(x.name) = Lower(Strip(location_name)) } }

\* latitude=..., longitude=..., created_by=self.user
LocationsByCoord(locations, latitude, longitude) ==
  { l.id : l \in { x \in locations :
                     /\ x.created_by = User
                     /\ x.latitude = latitude
                     /\ x.longitude = longitude } }

NextLocationId(locations) == Cardinality(locations) + 1

\* get_or_create_location: the outcome and the Location table afterwards.
\* Location.latitude and Location.longitude are NOT NULL columns, so
\* creating a Location without coordinates raises IntegrityError.
get_or_create_location(locations, location_name, latitude, longitude, create_if_missing) ==
  LET byName == QueryGet(LocationsByName(locations, location_name))
      hasCoord == Truthy(latitude) /\ Truthy(longitude)
      byCoord == IF hasCoord
                 THEN QueryGet(LocationsByCoord(locations, latitude,
                                                longitude))
                 ELSE Raised("DoesNotExist")
      new == [id |-> NextLocationId(locations),
              name |-> Strip(location_name),
              latitude |-> latitude, longitude |-> longitude,
              created_by |-> User, fresh |-> TRUE]
  IN IF byName.exc # "DoesNotExist"
     THEN [out |-> byName, locations |-> locations]
     ELSE IF byCoord.exc # "DoesNotExist"
     THEN [out |-> byCoord, locations |-> locations]
     ELSE IF create_if_missing
     THEN IF hasCoord
          THEN [out |-> Returned(new.id), locations |-> locations \cup { new }]
          ELSE [out |-> Raised("IntegrityError"), locations |-> locations]
     ELSE [out |-> Returned(0), locations |-> locations]

----------------------------------------------------------------------------
(* Inputs of one ingestion run                                             *)

\* largest number of data rows of an uploaded table
MaxRows == 2

SiteA == << "S", "i", "t", "e", " ", "A" >>
SiteALoose == << " ", "s", "i", "t", "e", " ", "a" >>
SiteB == << "S", "i", "t", "e", " ", "B" >>
SiteAUpper == << "S", "I", "T", "E", " ", "A" >>

DateCell(day) == [na |-> FALSE, parses |-> TRUE, day |-> day]

RowOf(loc, lat, lon, pol, conc, date) ==
  [location |-> loc, latitude |-> lat, longitude |-> lon,
   pollutant |-> pol, concentration |-> conc, date |-> date]

\* The rows a table is made of.  A row gives the cells under the columns
\* that reconcile to location, pollutant, concentration and date, and the
\* numbers under the latitude and longitude columns of a file that has them.
RowPool ==
  { RowOf(TextCell(SiteA), Coord(5), Coord(7),
          TextCell(<< "l", "e", "a", "d" >>), TextCell(<< "1", ".", "5" >>), DateCell(1)),
    RowOf(TextCell(SiteALoose), Coord(0), Coord(7),
          TextCell(<< "z", "o", "n" >>), TextCell(<< "<", "2" >>), DateCell(2)),
    RowOf(TextCell(SiteB), Coord(1), Coord(2),
          TextCell(<< "P", "b" >>), TextCell(<< "3" >>), DateCell(1)),
    RowOf(TextCell(SiteA), Coord(5), Coord(7),
          TextCell(<< "O", "z", "o", "n", "e", " " >>), TextCell(<< "-", "4" >>), DateCell(2)),
    RowOf(TextCell(SiteA), Coord(5), Coord(7),
          TextCell(<< "R", "a", "d", "o", "n" >>), TextCell(<< "ge", "1", "0" >>), DateCell(1)),
    RowOf(TextCell(SiteB), Coord(1), Coord(2),
          TextCell(<< "l", "e", "a", "d" >>), TextCell(<< "n", "d" >>), DateCell(1)),
    RowOf(NaCell, Coord(1), Coord(2),
          TextCell(<< "l", "e", "a", "d" >>), TextCell(<< "7" >>),
          [na |-> FALSE, parses |-> FALSE, day |-> 0]) }

Tables == UNION { [1..n -> RowPool] : n \in 0..MaxRows }

\* Header lines of uploaded tables
Headers ==
  { << << "L", "o", "c", "a", "t", "i", "o", "n" >>, << "P", "o", "l", "l", "u", "t", "a", "n", "t" >>, << "V", "a", "l", "u", "e" >>, << "D", "a", "t", "e" >> >>,
    << << "S", "i", "t", "e", " ", "N", "a", "m", "e" >>, << "l", "a", "t", "i", "t", "u", "d", "e" >>, << "l", "o", "n", "g", "i", "t", "u", "d", "e" >>, << "p", "a", "r", "a", "m", "e", "t", "e", "r" >>, << "r", "e", "s", "u", "l", "t" >>,
       << " ", "s", "a", "m", "p", "l", "i", "n", "g", " ", "d", "a", "t", "e" >> >>,
    << << "l", "o", "c", "a", "t", "i", "o", "n" >>, << "p", "o", "l", "l", "u", "t", "a", "n", "t" >>, << "m", "e", "a", "s", "u", "r", "e", "m", "e", "n", "t", "_", "d", "a", "t", "e" >>, << "v", "a", "l", "u", "e" >> >>,
    << << "l", "o", "c", "a", "t", "i", "o", "n" >>, << "m", "e", "a", "s", "u", "r", "e", "m", "e", "n", "t", "_", "d", "a", "t", "e" >>, << "v", "a", "l", "u", "e" >> >>,
    << << "s", "i", "t", "e" >>, << "p", "o", "l", "l", "u", "t", "a", "n", "t" >>, << "v", "a", "l", "u", "e" >> >>,
    << << "p", "o", "l", "l", "u", "t", "a", "n", "t" >>, << "n", "o", "t", "e", "s" >> >> }

\* file_path: its extension, and whether the reader can load the file
FilePaths ==
  { [ext |-> ".csv", readable |-> TRUE],
    [ext |-> ".xlsx", readable |-> TRUE],
    [ext |-> ".xls", readable |-> FALSE],
    [ext |-> ".json", readable |-> TRUE] }

\* batch_data: the keys the mapping has
BatchDatas ==
  { { "batch_name", "sampling_date", "project_name" },
    { "sampling_date" },
    { "batch_name" } }

OptionKeys == { "skip_invalid_rows", "create_missing_locations" }

\* options: None (which becomes the empty mapping) or a mapping that sets
\* both recognised keys
OptionBags == [{ } -> BOOLEAN] \cup [OptionKeys -> BOOLEAN]

\* a look-up that returns the default whatever the bag holds
OptionsGet_default(options, key, default) == default

\* options.get(key, default)
OptionsGet(options, key, default) ==
  IF key \in DOMAIN options THEN options[key] ELSE default

\* Location tables an ingestion run can find in the store
StoredLocation(id, name, lat, lon, owner) ==
  [id |-> id, name |-> name, latitude |-> Coord(lat),
   longitude |-> Coord(lon), created_by |-> owner, fresh |-> FALSE]

PriorLocations ==
  { { },
    { StoredLocation(1, SiteA, 5, 7, User),
      StoredLocation(2, SiteB, 1, 2, OtherUser) },
    { StoredLocation(1, SiteA, 5, 7, User),
      StoredLocation(2, SiteAUpper, 3, 4, User) } }

----------------------------------------------------------------------------
(* Cleaning: validate_and_clean_dataframe, second half, clean_data_types   *)

\* What reconciliation makes of each header line of the model: the renamed
\* columns and the required columns that are missing from them
Reconciled ==
  [h \in Headers |->
     [columns |-> ReconciledColumns(h),
      missing_cols |-> missing_cols(ReconciledColumns(h))]]

LatitudeCol == << "l", "a", "t", "i", "t", "u", "d", "e" >>
LongitudeCol == << "l", "o", "n", "g", "i", "t", "u", "d", "e" >>

\* The frame read from the file: each row with its index label (0-based
\* position in the file), the latitude and longitude being None when the
\* file has no such column (row.get).
ReadFrame(header, table) ==
  LET cols == Range(Reconciled[header].columns)
  IN [i \in 1..Len(table) |->
        [index |-> i - 1,
         location |-> table[i].location,
         pollutant |-> table[i].pollutant,
         concentration |-> table[i].concentration,
         date |-> table[i].date,
         latitude |-> IF LatitudeCol \in cols
                      THEN table[i].latitude ELSE NoCoord,
         longitude |-> IF LongitudeCol \in cols
                       THEN table[i].longitude ELSE NoCoord]]

\* df.dropna(subset=required_cols): rows without a missing required cell
HasMissingCell(r) ==
  r.location.na \/ r.pollutant.na \/ r.concentration.na \/ r.date.na

\* a dropna that renumbers the rows it keeps (reset_index)
DropMissing_reset_index(df) ==
  LET Keep(r) == ~HasMissingCell(r)
      kept == SelectSeq(df, Keep)
  IN [i \in 1..Len(kept) |-> [kept[i] EXCEPT !.index = i - 1]]

DropMissing(df) ==
  LET Keep(r) == ~HasMissingCell(r) IN SelectSeq(df, Keep)

\* the two column conversions of clean_data_types
ConvertTypes(df) ==
  [i \in 1..Len(df) |->
     [df[i] EXCEPT !.concentration = clean_numeric_value(df[i].concentration),
                   !.date = to_datetime(df[i].date)]]

\* df.dropna(subset=['date', 'concentration'])
DropInvalid(df) ==
  LET Keep(r) == ~r.date.nat /\ ~r.concentration.nan IN SelectSeq(df, Keep)

\* clean_data_types that converts the two columns and drops no row
clean_data_types_keeps_invalid(df, warns) ==
  [df |-> ConvertTypes(df), warnings |-> warns]

\* clean_data_types: the frame and the warnings list afterwards
clean_data_types(df, warns) ==
  LET converted == ConvertTypes(df)
      kept == DropInvalid(converted)
      dropped_count == Len(converted) - Len(kept)
  IN [df |-> kept,
      warnings |-> IF dropped_count > 0
                   THEN Append(warns, [msg |-> "Dropped rows with invalid dates or concentrations",
                                       count |-> dropped_count])
                   ELSE warns]

\* validate_and_clean_dataframe after the check for required columns
CleanFrame(df, warns) ==
  LET kept == DropMissing(df)
      dropped_count == Len(df) - Len(kept)
      warns1 == IF dropped_count > 0
                THEN Append(warns, [msg |-> "Dropped rows with missing critical data",
                                    count |-> dropped_count])
                ELSE warns
  IN clean_data_types(kept, warns1)

----------------------------------------------------------------------------
(* process_row                                                             *)

\* An exception message: its fixed text and the values formatted into it
ExcMsg(msg, args) == [msg |-> msg, args |-> args]

NoExc == ExcMsg("", << >>)

NoReading ==
  [id |-> 0, location |-> 0, pollutant_type |-> 0, concentration |-> NaN,
   measurement_date |-> NaT, quality_flag |-> "valid", created_by |-> User]

\* process_row: the exception it raises (NoExc when it returns), the reading
\* it returns and the Location table afterwards.  The reading is a model
\* instance, which is never falsy; its id is the row's index label.
process_row(row, locations, options) ==
  LET loc == get_or_create_location(locations, row.location.text,
               row.latitude, row.longitude,
               OptionsGet(options, "create_missing_locations", TRUE))
      pol == get_pollutant_type(row.pollutant.text)
      concentration == validate_concentration(row.concentration)
      Fail(e) == [exc |-> e, reading |-> NoReading,
                  locations |-> loc.locations]
  IN IF loc.out.exc # "" THEN Fail(ExcMsg(loc.out.exc, << >>))
     ELSE IF loc.out.id = 0
     THEN Fail(ExcMsg("Location not found and auto-creation disabled",
                      << row.location.text >>))
     ELSE IF pol.exc # "" THEN Fail(ExcMsg(pol.exc, << >>))
     ELSE IF pol.id = 0
     THEN Fail(ExcMsg("Pollutant type not found", << row.pollutant.text >>))
     ELSE IF concentration.nan
     THEN Fail(ExcMsg("Invalid concentration value", << >>))
     ELSE [exc |-> NoExc,
           reading |-> [id |-> row.index,
                        location |-> loc.out.id,
                        pollutant_type |-> pol.id,
                        concentration |-> concentration,
                        measurement_date |-> row.date,
                        quality_flag |-> "valid",
                        created_by |-> User],
           locations |-> loc.locations]

----------------------------------------------------------------------------
(* State                                                                   *)

VARIABLES
  Location,              \* store: the Location table
  SampleBatch,           \* store: the SampleBatch table
  EnvironmentalReading,  \* store: the EnvironmentalReading table
  BatchReading,          \* store: the BatchReading table
  upload_log,            \* the DataUploadLog given to the constructor
  errors,                \* self.errors
  warnings,              \* self.warnings
  processed_count,       \* self.processed_count
  successful_count,      \* self.successful_count
  failed_count,          \* self.failed_count
  skipped_count,         \* self.skipped_count
  pc,                    \* position of process_file
  call,                  \* arguments of process_file and the file's content
  df_clean,              \* local df_clean
  pos,                   \* position of the row loop in df_clean
  batch,                 \* local batch (0 before it is created)
  readings,              \* local readings
  exc,                   \* the exception on its way to the outer handler
  result,                \* what process_file returned
  value,                 \* argument of a call of clean_numeric_value
  numeric,               \* what that call returned
  analysis,              \* the call of a StatisticalAnalyzer method
  interpreting,          \* the call of _interpret_t_test
  racing,                \* two concurrent calls of get_or_create_location
  report                 \* the call of generate_summary_report

store == << Location, SampleBatch, EnvironmentalReading, BatchReading >>
counters == << processed_count, successful_count, failed_count, skipped_count >>
locals == << df_clean, pos, batch, readings >>
ingestion == << store, upload_log, errors, warnings, counters, pc, call,
               locals, exc, result >>
cleaning == << value, numeric >>
aside == << cleaning, analysis, interpreting, racing, report >>
vars == << ingestion, aside >>

\* offset of a row's index label to its line in the file: "Row {index + 2}"
RowOffset == 2

NoResult ==
  [returned |-> FALSE, success |-> FALSE, keys |-> { }, batch |-> 0,
   processed |-> 0, successful |-> 0, failed |-> 0, skipped |-> 0,
   errors |-> << >>, warnings |-> << >>, error |-> NoExc]

\* nth: the number of this call among the calls on the processor
NoCall ==
  [file_path |-> [ext |-> "", readable |-> FALSE], header |-> << >>,
   table |-> << >>, batch_data |-> { }, options |-> << >>, nth |-> 1]

\* a DataUploadLog as its creator leaves it, or None (given = FALSE)
NewUploadLog(given, status) ==
  [given |-> given, processing_status |-> status,
   records_processed |-> 0, records_successful |-> 0,
   records_failed |-> 0, records_skipped |-> 0,
   batch |-> 0, processing_end |-> 0,
   error_log |-> << >>, warning_log |-> << >>, saves |-> 0]

UploadLogs ==
  { NewUploadLog(FALSE, "pending"), NewUploadLog(TRUE, "pending"),
    NewUploadLog(TRUE, "processing") }

\* no call of clean_numeric_value has returned
NotCleaned == [returned |-> FALSE, out |-> NaN]

\* no method of a StatisticalAnalyzer has been called
NoAnalysis == [called |-> FALSE]

\* _interpret_t_test has not been called
NotInterpreting == [called |-> FALSE]

\* no concurrent calls of get_or_create_location
NotRacing == << >>

\* generate_summary_report has not been called
NoReport == [called |-> FALSE]

\* DataProcessor.__init__ over a store that earlier runs have filled
Init ==
  /\ Location \in PriorLocations
  /\ SampleBatch = { }
  /\ EnvironmentalReading = { }
  /\ BatchReading = { }
  /\ upload_log \in UploadLogs
  /\ errors = << >>
  /\ warnings = << >>
  /\ processed_count = 0
  /\ successful_count = 0
  /\ failed_count = 0
  /\ skipped_count = 0
  /\ pc = "idle"
  /\ call = NoCall
  /\ df_clean = << >>
  /\ pos = 0
  /\ batch = 0
  /\ readings = << >>
  /\ exc = NoExc
  /\ result = NoResult
  /\ value = NaCell
  /\ numeric = NotCleaned
  /\ analysis = NoAnalysis
  /\ interpreting = NotInterpreting
  /\ racing = NotRacing
  /\ report = NoReport

----------------------------------------------------------------------------
(* process_file, step by step.  An argument or a part of the file is drawn *)
(* at the step that first reads it.                                        *)

SupportedExtensions == { ".csv", ".xlsx", ".xls" }

\* an exception that leaves process_file without passing through the handler
Raise_escapes(e) ==
  /\ exc' = e
  /\ pc' = "done"

\* the exception of the outer try block on its way to the handler
Raise(e) ==
  /\ exc' = e
  /\ pc' = "except"

\* lines 33-44: the file is read, or reading it raises
ReadFile ==
  /\ pc = "idle"
  /\ \E fp \in FilePaths :
       IF fp.ext \notin SupportedExtensions
       THEN /\ call' = [call EXCEPT !.file_path = fp]
            /\ Raise(ExcMsg("Unsupported file format", << >>))
       ELSE IF ~fp.readable
       THEN /\ call' = [call EXCEPT !.file_path = fp]
            /\ Raise(ExcMsg("File cannot be read", << >>))
       ELSE /\ \E h \in Headers :
                 call' = [call EXCEPT !.file_path = fp, !.header = h]
            /\ pc' = "validate"
            /\ exc' = exc
  /\ UNCHANGED << store, upload_log, errors, warnings, counters, locals,
                  result >>
  /\ UNCHANGED aside

\* lines 47, 117-146: the check for the required columns
ValidateColumns ==
  /\ pc = "validate"
  /\ IF Reconciled[call.header].missing_cols # << >>
     THEN Raise(ExcMsg("Missing required columns",
                       Reconciled[call.header].missing_cols))
     ELSE /\ pc' = "clean"
          /\ exc' = exc
  /\ UNCHANGED << store, upload_log, errors, warnings, counters, call,
                  locals, result >>
  /\ UNCHANGED aside

\* lines 148-159, 161-178: rows with missing or invalid cells are dropped
CleanRows ==
  /\ pc = "clean"
  /\ \E tb \in Tables :
       LET cleaned == CleanFrame(ReadFrame(call.header, tb), warnings)
       IN /\ call' = [call EXCEPT !.table = tb]
          /\ df_clean' = cleaned.df
          /\ warnings' = cleaned.warnings
  /\ pc' = "batch"
  /\ UNCHANGED << store, upload_log, errors, counters, pos, batch, readings,
                  exc, result >>
  /\ UNCHANGED aside

NextBatchId(batches) == Cardinality(batches) + 1

\* lines 50, 197-209: create_sample_batch, then the row loop is entered
CreateSampleBatch ==
  /\ pc = "batch"
  /\ \E bd \in BatchDatas :
       IF "batch_name" \notin bd
       THEN /\ call' = [call EXCEPT !.batch_data = bd]
            /\ Raise(ExcMsg("KeyError", << >>))
            /\ UNCHANGED << SampleBatch, batch, pos >>
       ELSE IF "sampling_date" \notin bd
       THEN /\ call' = [call EXCEPT !.batch_data = bd]
            /\ Raise(ExcMsg("KeyError", << >>))
            /\ UNCHANGED << SampleBatch, batch, pos >>
       ELSE /\ \E op \in OptionBags :
                 call' = [call EXCEPT !.batch_data = bd, !.options = op]
            /\ SampleBatch' = SampleBatch \cup
                 { [id |-> NextBatchId(SampleBatch), created_by |-> User] }
            /\ batch' = NextBatchId(SampleBatch)
            /\ pos' = 1
            /\ pc' = "rows"
            /\ exc' = exc
  /\ UNCHANGED << Location, EnvironmentalReading, BatchReading, upload_log,
                  errors, warnings, counters, df_clean, readings, result >>
  /\ UNCHANGED aside

\* the error message of a failed row
RowError(index, e) == [row |-> index + RowOffset, text |-> e]

\* lines 54-71: one iteration of the row loop
ProcessRow ==
  /\ pc = "rows"
  /\ pos <= Len(df_clean)
  /\ LET row == df_clean[pos]
         r == process_row(row, Location, call.options)
     IN /\ Location' = r.locations
        /\ IF r.exc = NoExc
           THEN /\ readings' = Append(readings, r.reading)
                /\ successful_count' = successful_count + 1
                /\ processed_count' = processed_count + 1
                /\ pos' = pos + 1
                /\ pc' = pc
                /\ UNCHANGED << failed_count, errors, exc >>
           ELSE /\ failed_count' = failed_count + 1
                /\ errors' = Append(errors, RowError(row.index, r.exc))
                /\ IF OptionsGet(call.options, "skip_invalid_rows", TRUE)
                   THEN /\ processed_count' = processed_count + 1
                        /\ pos' = pos + 1
                        /\ pc' = pc
                        /\ exc' = exc
                   ELSE /\ Raise(r.exc)
                        /\ UNCHANGED << processed_count, pos >>
                /\ UNCHANGED << readings, successful_count >>
  /\ UNCHANGED << SampleBatch, EnvironmentalReading, BatchReading, upload_log,
                  warnings, skipped_count, call, df_clean, batch, result >>
  /\ UNCHANGED aside

\* batch links for the readings that share their location with no other
\* reading of the run
batch_readings_per_location(b, created_readings) ==
  { [batch |-> b, reading |-> r.id] :
      r \in { x \in created_readings :
                \A y \in created_readings : y.location = x.location => y = x } }

\* lines 78-81: one BatchReading for each created reading
batch_readings(b, created_readings) ==
  { [batch |-> b, reading |-> r.id] : r \in created_readings }

\* lines 73-82: the readings and their batch links are created in bulk
BulkCreate ==
  /\ pc = "rows"
  /\ pos > Len(df_clean)
  /\ EnvironmentalReading' = EnvironmentalReading \cup Range(readings)
  /\ BatchReading' = BatchReading \cup batch_readings(batch, Range(readings))
  /\ pc' = "log"
  /\ UNCHANGED << Location, SampleBatch, upload_log, errors, warnings,
                  counters, call, locals, exc, result >>
  /\ UNCHANGED aside

\* update_upload_log with the status test written failed_count >= 0
update_upload_log_status_ge(log) ==
  [log EXCEPT
     !.records_processed = processed_count,
     !.records_successful = successful_count,
     !.records_failed = failed_count,
     !.records_skipped = skipped_count,
     !.batch = batch,
     !.processing_end = 1,
     !.processing_status = IF failed_count >= 0
                           THEN "completed_with_errors" ELSE "completed",
     !.error_log = IF errors # << >> THEN errors ELSE @,
     !.warning_log = IF warnings # << >> THEN warnings ELSE @,
     !.saves = @ + 1]

\* update_upload_log that reports errors only when some row succeeded
update_upload_log_needs_success(log) ==
  [log EXCEPT
     !.records_processed = processed_count,
     !.records_successful = successful_count,
     !.records_failed = failed_count,
     !.records_skipped = skipped_count,
     !.batch = batch,
     !.processing_end = 1,
     !.processing_status = IF failed_count > 0 /\ successful_count > 0
                           THEN "completed_with_errors" ELSE "completed",
     !.error_log = IF errors # << >> THEN errors ELSE @,
     !.warning_log = IF warnings # << >> THEN warnings ELSE @,
     !.saves = @ + 1]

\* update_upload_log
update_upload_log(log) ==
  [log EXCEPT
     !.records_processed = processed_count,
     !.records_successful = successful_count,
     !.records_failed = failed_count,
     !.records_skipped = skipped_count,
     !.batch = batch,
     !.processing_end = 1,
     !.processing_status = IF failed_count > 0
                           THEN "completed_with_errors" ELSE "completed",
     !.error_log = IF errors # << >> THEN errors ELSE @,
     !.warning_log = IF warnings # << >> THEN warnings ELSE @,
     !.saves = @ + 1]

\* a success mapping whose processed count is the number of rows of the file
SuccessResult_counts_file_rows ==
  [returned |-> TRUE, success |-> TRUE,
   keys |-> { "success", "batch", "processed", "successful", "failed",
              "skipped", "errors", "warnings" },
   batch |-> batch, processed |-> Len(call.table),
   successful |-> successful_count, failed |-> failed_count,
   skipped |-> skipped_count, errors |-> errors, warnings |-> warnings,
   error |-> NoExc]

\* the mapping returned at lines 90-99
SuccessResult ==
  [returned |-> TRUE, success |-> TRUE,
   keys |-> { "success", "batch", "processed", "successful", "failed",
              "skipped", "errors", "warnings" },
   batch |-> batch, processed |-> processed_count,
   successful |-> successful_count, failed |-> failed_count,
   skipped |-> skipped_count, errors |-> errors, warnings |-> warnings,
   error |-> NoExc]

\* lines 84-99: the upload log is updated and the result returned
Finish ==
  /\ pc = "log"
  /\ upload_log' = IF upload_log.given THEN update_upload_log(upload_log)
                   ELSE upload_log
  /\ result' = SuccessResult
  /\ pc' = "done"
  /\ UNCHANGED << store, errors, warnings, counters, call, locals, exc >>
  /\ UNCHANGED aside

\* the mapping returned at lines 108-113
FailureResult(e) ==
  [NoResult EXCEPT !.returned = TRUE, !.success = FALSE,
                   !.keys = { "success", "error", "errors", "warnings" },
                   !.error = e, !.errors = errors, !.warnings = warnings]

\* a handler that saves the upload log without setting its status
mark_failed_keeps_status(log, e) ==
  [log EXCEPT !.error_log = << [row |-> 0, text |-> e] >>,
              !.saves = @ + 1]

\* lines 103-106: the handler marks the upload log as failed
mark_failed(log, e) ==
  [log EXCEPT !.processing_status = "failed",
              !.error_log = << [row |-> 0, text |-> e] >>,
              !.saves = @ + 1]

\* lines 101-113: the outer exception handler
HandleException ==
  /\ pc = "except"
  /\ upload_log' = IF upload_log.given THEN mark_failed(upload_log, exc)
                   ELSE upload_log
  /\ result' = FailureResult(exc)
  /\ pc' = "done"
  /\ UNCHANGED << store, errors, warnings, counters, call, locals, exc >>
  /\ UNCHANGED aside

Next ==
  \/ ReadFile
  \/ ValidateColumns
  \/ CleanRows
  \/ CreateSampleBatch
  \/ ProcessRow
  \/ BulkCreate
  \/ Finish
  \/ HandleException

Spec == Init /\ [][Next]_vars

----------------------------------------------------------------------------
(* Vocabulary of the properties                                            *)

Done == pc = "done"

\* the run's options: each is true unless the bag sets it to false
SkipInvalidRows ==
  "skip_invalid_rows" \in DOMAIN call.options =>
     call.options["skip_invalid_rows"]

CreateMissingLocations ==
  "create_missing_locations" \in DOMAIN call.options =>
     call.options["create_missing_locations"]

\* an exception reached the outer handler of process_file
Aborted == exc # NoExc

\* the run got past every structural check: the file was read, the four
\* required columns were found and the batch was created
ReachedRows ==
  /\ call.file_path.ext \in SupportedExtensions
  /\ call.file_path.readable
  /\ call.header \in Headers
  /\ Reconciled[call.header].missing_cols = << >>
  /\ { "batch_name", "sampling_date" } \subseteq call.batch_data

\* the Location records that were in the store before the run
PriorLocation == { l \in Location : ~l.fresh }

\* the Location records the run created
CreatedLocation == { l \in Location : l.fresh }

\* every required cell of the row is present and parses
Parses(raw, converted) ==
  /\ ~HasMissingCell(raw)
  /\ ~converted.concentration.nan
  /\ ~converted.date.nat

\* the row's location and pollutant resolve against the store as it is when
\* the row is reached, and its concentration is not negative
WellFormed(row, location) ==
  LET pol == get_pollutant_type(row.pollutant.text)
  IN /\ location.out.exc = ""
     /\ location.out.id # 0
     /\ pol.exc = ""
     /\ pol.id # 0
     /\ row.concentration.n >= 0

\* index labels of the well-formed rows among rows i.. of a frame whose
\* cells all parse, the Location table being locations when row i is reached
RECURSIVE WellFormedFrom(_, _, _, _)
WellFormedFrom(df, i, locations, create) ==
  IF i > Len(df) THEN { }
  ELSE LET loc == get_or_create_location(locations, df[i].location.text,
                    df[i].latitude, df[i].longitude, create)
       IN (IF WellFormed(df[i], loc) THEN { df[i].index } ELSE { })
            \cup WellFormedFrom(df, i + 1, loc.locations, create)

\* The rows of the run's table by what becomes of them: the index labels of
\* the rows whose cells all parse, of those among them that are well-formed,
\* and of those that are not
Rows ==
  LET raw == ReadFrame(call.header, call.table)
      whole == ConvertTypes(raw)
      parsing == { i \in 1..Len(raw) : Parses(raw[i], whole[i]) }
      Keep(r) == (r.index + 1) \in parsing
      well_formed == WellFormedFrom(SelectSeq(whole, Keep), 1, PriorLocation,
                                    CreateMissingLocations)
  IN [parsing |-> { i - 1 : i \in parsing },
      well_formed |-> well_formed,
      failing |-> { i - 1 : i \in parsing } \ well_formed,
      negative |-> { i - 1 : i \in { j \in parsing :
                                       whole[j].concentration.n < 0 } }]

\* the canonical fields for which a header line has no column at all: no
\* column name contains one of the field's alias substrings
FieldsWithoutColumn ==
  [h \in Headers |->
     { required_mappings[k].standard_name :
         k \in { j \in 1..Len(required_mappings) :
                   \A i \in 1..Len(h) :
                      ~MatchesAny(NormalizeColumns(h)[i],
                                  required_mappings[j].possible_names) } }]

\* the run created no record of any kind
NothingCreated ==
  /\ SampleBatch = { }
  /\ CreatedLocation = { }
  /\ EnvironmentalReading = { }
  /\ BatchReading = { }

TerminalStatuses == { "completed", "completed_with_errors", "failed" }

----------------------------------------------------------------------------
(* Properties                                                              *)

\* C1: with skip_invalid_rows true (the default), a run over a table of N
\* rows that each have a resolvable location, a resolvable pollutant, a
\* parseable non-negative concentration and a parseable date persists exactly
\* N readings, returns success with processed = successful = N and
\* failed = skipped = 0, and leaves the upload log 'completed'.
C1_RoundTrip ==
  (Done /\ ReachedRows /\ SkipInvalidRows) =>
     LET N == Len(call.table)
     IN Cardinality(Rows.well_formed) = N =>
          /\ result.success
          /\ result.processed = N
          /\ result.successful = N
          /\ result.failed = 0
          /\ result.skipped = 0
          /\ Cardinality(EnvironmentalReading) = N
          /\ upload_log.given => upload_log.processing_status = "completed"

\* C1 witness: a finished run over two well-formed rows, the second of which
\* uses the Location the first one created, with an upload log
C1_Witness ==
  /\ Done /\ ReachedRows /\ SkipInvalidRows
  /\ Len(call.table) = 2
  /\ Cardinality(EnvironmentalReading) = 2
  /\ Cardinality(CreatedLocation) = 1
  /\ upload_log.given
  /\ upload_log.processing_status = "completed"
  /\ Cardinality(Rows.well_formed) = 2

\* C2: with skip_invalid_rows true, a row whose location or pollutant does
\* not resolve or whose concentration is negative does not stop the run: it
\* adds one message to errors and 1 to failed, the well-formed rows are
\* persisted all the same, the result is a success and the upload log is
\* 'completed_with_errors'.
C2_FailedRowsAreSkipped ==
  (Done /\ ReachedRows /\ SkipInvalidRows) =>
     LET rows == Rows
     IN /\ result.success
        /\ Len(result.errors) = Cardinality(rows.failing)
        /\ { e.row - RowOffset : e \in Range(result.errors) } = rows.failing
        /\ result.failed = Cardinality(rows.failing)
        /\ result.successful = Cardinality(rows.well_formed)
        /\ { r.id : r \in EnvironmentalReading } = rows.well_formed
        /\ (upload_log.given /\ rows.failing # { }) =>
              upload_log.processing_status = "completed_with_errors"

\* C2 witness: a finished run over one well-formed row and one row with a
\* negative concentration: one reading, one failure
C2_Witness ==
  /\ Done /\ ReachedRows /\ SkipInvalidRows
  /\ Len(call.table) = 2
  /\ result.successful = 1
  /\ result.failed = 1
  /\ Cardinality(EnvironmentalReading) = 1
  /\ upload_log.processing_status = "completed_with_errors"
  /\ Rows.negative # { }

\* C3: when the table has no column for one of the four required fields, or
\* the extension is not .csv, .xlsx or .xls, the run returns a failure with
\* an error message (for missing columns: one that names exactly the fields
\* that have no column) and creates no batch, location or reading.
C3_StructuralFailure ==
  /\ (Done /\ call.file_path.ext \notin SupportedExtensions) =>
        /\ ~result.success
        /\ result.error.msg = "Unsupported file format"
        /\ NothingCreated
  /\ (Done /\ call.header \in Headers) =>
        (FieldsWithoutColumn[call.header] # { } =>
           /\ ~result.success
           /\ result.error.msg = "Missing required columns"
           /\ Range(result.error.args) = FieldsWithoutColumn[call.header]
           /\ NothingCreated)

\* C4: with skip_invalid_rows false the first failing row ends the run at
\* once: no later row is processed, the result is a failure and no reading
\* and no batch link of the run is persisted, also after successful rows.
C4_FirstErrorAborts ==
  (~SkipInvalidRows /\ failed_count > 0) =>
     /\ pc \in { "except", "done" }
     /\ failed_count = 1
     /\ Len(errors) = 1
     /\ errors[1].row = df_clean[pos].index + RowOffset
     /\ processed_count = pos - 1
     /\ successful_count = pos - 1
     /\ EnvironmentalReading = { }
     /\ BatchReading = { }
     /\ Done => (result.returned /\ ~result.success)

\* C4 witness: an aborted run whose second row failed after the first one
\* had been processed successfully
C4_Witness ==
  /\ Done /\ ~SkipInvalidRows
  /\ failed_count = 1
  /\ successful_count = 1
  /\ Len(readings) = 1
  /\ pos = 2
  /\ ~result.success
  /\ EnvironmentalReading = { }

\* C5 as stated: the final status of a given upload log is 'completed'
\* exactly when the run finished without a failed row,
\* 'completed_with_errors' exactly when it finished with at least one failed
\* and at least one successful row, 'failed' exactly when the run was aborted.
C5_StatusAsStated ==
  (Done /\ upload_log.given) =>
     LET status == upload_log.processing_status
         failing == IF Aborted THEN { } ELSE Rows.failing
         well_formed == IF Aborted THEN { } ELSE Rows.well_formed
     IN /\ status = "completed" <=> (~Aborted /\ failing = { })
        /\ status = "completed_with_errors" <=>
              (~Aborted /\ failing # { } /\ well_formed # { })
        /\ status = "failed" <=> Aborted

\* C5 amended: the final status of a given upload log is 'completed' exactly
\* when the run finished without a failed row, 'completed_with_errors'
\* exactly when it finished with at least one failed row, whether or not a
\* row succeeded, and 'failed' exactly when the run was aborted.
C5_StatusFollowsFailures ==
  (Done /\ upload_log.given) =>
     LET status == upload_log.processing_status
         failing == IF Aborted THEN { } ELSE Rows.failing
     IN /\ status = "completed" <=> (~Aborted /\ failing = { })
        /\ status = "completed_with_errors" <=> (~Aborted /\ failing # { })
        /\ status = "failed" <=> Aborted

\* C5 witness: a finished run in which every row failed and none succeeded,
\* logged as 'completed_with_errors'
C5_Witness ==
  /\ Done /\ upload_log.given /\ ~Aborted
  /\ Len(call.table) = 2
  /\ Cardinality(Rows.failing) = 2
  /\ successful_count = 0
  /\ upload_log.processing_status = "completed_with_errors"

\* C6: a run that returns a failure, a row error promoted by
\* skip_invalid_rows false included, has persisted nothing: the store holds
\* no SampleBatch and no Location created by the run.
C6_FailurePersistsNothing ==
  (Done /\ ~result.success) =>
     /\ SampleBatch = { }
     /\ CreatedLocation = { }

\* C7: process_file never raises to its caller: every exception reaches its
\* handler, every run ends with a result that has a boolean success, a
\* structural failure is returned as a failure with an error message, and
\* with skip_invalid_rows true no row error makes the result a failure.
C7_AlwaysReturnsResult ==
  /\ Aborted => pc \in { "except", "done" }
  /\ Done =>
       /\ result.returned
       /\ "success" \in result.keys
       /\ result.success \in BOOLEAN
       /\ result.success <=> ~Aborted
       /\ ~result.success => ("error" \in result.keys /\ result.error = exc)
       /\ ~ReachedRows => ~result.success
       /\ (ReachedRows /\ SkipInvalidRows) => result.success

\* C7 witness: a run with skip_invalid_rows true that returned a success
\* although one of its rows raised, and a run that hit a structural failure
\* and returned it
C7_Witness ==
  /\ Done /\ result.returned
  /\ \/ /\ ReachedRows /\ SkipInvalidRows
        /\ Len(errors) = 1
        /\ result.success
        /\ ~upload_log.given
     \/ /\ ~ReachedRows
        /\ ~result.success
        /\ result.error.msg = "KeyError"

\* C8: a given upload log is written exactly once, at the end of the run:
\* it is untouched while the run is under way, and when the run has
\* returned it has been saved once and its status is terminal.
C8_LogWrittenOnceAtEnd ==
  upload_log.given =>
     /\ ~Done => (upload_log.saves = 0 /\ upload_log \in UploadLogs)
     /\ Done => /\ upload_log.saves = 1
                /\ upload_log.processing_status \in TerminalStatuses

\* C8 witness: a run that processed two rows and an aborted run, each with
\* its log saved once
C8_Witness ==
  /\ Done /\ upload_log.given /\ upload_log.saves = 1
  /\ \/ processed_count = 2
     \/ upload_log.processing_status = "failed"

\* C9: whenever a run finalizes the upload log, with any of the three
\* terminal statuses, the log records the run's four counts, the accumulated
\* row error messages and an end timestamp.
C9_LogRecordsRun ==
  (Done /\ upload_log.given
        /\ upload_log.processing_status \in TerminalStatuses) =>
     /\ upload_log.records_processed = processed_count
     /\ upload_log.records_successful = successful_count
     /\ upload_log.records_failed = failed_count
     /\ upload_log.records_skipped = skipped_count
     /\ Range(errors) \subseteq Range(upload_log.error_log)
     /\ upload_log.processing_end # 0

\* the resolution in three ordered steps: exact name, else a name that
\* contains the reference, else the chemical formula
ThreeStepResolution(name) ==
  LET pollutant_name == Strip(name)
      exact == QueryGet(PollutantsByName(pollutant_name))
      partial == QueryFirst(PollutantsByPartialName(pollutant_name))
      formula == QueryGet(PollutantsByFormula(pollutant_name))
  IN IF exact.exc # "DoesNotExist" THEN exact
     ELSE IF partial.id # 0 THEN partial
     ELSE IF formula.exc # "DoesNotExist" THEN formula
     ELSE Returned(0)

\* C10: a pollutant reference is resolved among the active pollutants by
\* exact name, else by a name containing it, else by chemical formula; a
\* reference that equals only a formula resolves to that pollutant, and a row
\* fails as 'not found' only when all three steps find nothing.
C10_ThreeStepPollutantResolution ==
  /\ \A i \in 1..Len(df_clean) :
        get_pollutant_type(df_clean[i].pollutant.text)
          = ThreeStepResolution(df_clean[i].pollutant.text)
  /\ \A e \in Range(errors) :
        e.text.msg = "Pollutant type not found" =>
           ThreeStepResolution(e.text.args[1]) = Returned(0)

\* the user's Location records a row's name designates: the stored name
\* equals the trimmed name of the row, letter case aside
SameName(locations, location_name) ==
  { l \in locations : /\ l.created_by = User
                      /\ Lower(l.name) = Lower(Strip(location_name)) }

\* the user's Location records at the coordinate pair of a row that has one
SameCoordinates(locations, latitude, longitude) ==
  { l \in locations : /\ l.created_by = User
                      /\ ~latitude.none /\ ~longitude.none
                      /\ l.latitude = latitude
                      /\ l.longitude = longitude }

\* the row of df_clean with index label id
RowLabelled(id) == CHOOSE r \in Range(df_clean) : r.index = id

\* C11: the Location of a row is the user's existing Location of the same
\* name (letter case and surrounding blanks aside), else the user's existing
\* Location at the row's coordinate pair, else a Location created for it when
\* create_missing_locations is true, and otherwise none, nothing being
\* created; so one run creates at most one Location per name and the readings
\* of rows with one name reference one Location.
C11_LocationGetOrCreate ==
  /\ (pc = "rows" /\ pos <= Len(df_clean)) =>
       LET row == df_clean[pos]
           name == row.location.text
           byName == SameName(Location, name)
           byCoord == SameCoordinates(Location, row.latitude, row.longitude)
           r == get_or_create_location(Location, name, row.latitude,
                                       row.longitude, CreateMissingLocations)
       IN IF byName # { }
          THEN /\ r.out.exc = ""
               /\ r.out.id \in { l.id : l \in byName }
               /\ r.locations = Location
          ELSE IF byCoord # { }
          THEN /\ r.out.exc = ""
               /\ r.out.id \in { l.id : l \in byCoord }
               /\ r.locations = Location
          ELSE IF CreateMissingLocations
          THEN /\ r.out.exc = ""
               /\ Location \subseteq r.locations
               /\ \E l \in r.locations \ Location :
                     /\ r.locations = Location \cup { l }
                     /\ l.id = r.out.id
                     /\ l.name = Strip(name)
                     /\ l.created_by = User
          ELSE /\ r.out = Returned(0)
               /\ r.locations = Location
  /\ \A l1, l2 \in CreatedLocation :
        Lower(l1.name) = Lower(l2.name) => l1 = l2
  /\ \A i, j \in 1..Len(readings) :
        Lower(Strip(RowLabelled(readings[i].id).location.text))
           = Lower(Strip(RowLabelled(readings[j].id).location.text))
        => readings[i].location = readings[j].location

\* positions of the rows of df_clean that process_row has been called for
Processed ==
  { i \in 1..Len(df_clean) :
      \/ (pc \in { "rows", "log", "done" } /\ ~Aborted /\ i < pos)
      \/ (Aborted /\ pos >= 1 /\ i <= pos) }

\* C12: no reading kept for or persisted by a run has a negative
\* concentration: a row whose cleaned concentration is negative gets no
\* reading, it is reported in errors and counted as failed.
C12_NoNegativeReading ==
  /\ \A r \in EnvironmentalReading \cup Range(readings) :
        ~r.concentration.nan /\ r.concentration.n >= 0
  /\ \A i \in Processed :
        df_clean[i].concentration.n < 0 =>
           /\ \E e \in Range(errors) : e.row = df_clean[i].index + RowOffset
           /\ \A r \in Range(readings) : r.id # df_clean[i].index
  /\ failed_count = Len(errors)

\* C12 witness: a finished run without an upload log that persisted a reading
\* and rejected a row for its negative concentration
C12_Witness ==
  /\ Done /\ ~upload_log.given
  /\ EnvironmentalReading # { }
  /\ failed_count = 1
  /\ \E e \in Range(errors) : e.text.msg = "Invalid concentration value"
  /\ \E i \in 1..Len(df_clean) : df_clean[i].concentration.n < 0

\* the file was read, its required columns were found and its rows cleaned
Cleaned ==
  /\ pc \notin { "idle", "validate", "clean" }
  /\ call.header \in Headers
  /\ Reconciled[call.header].missing_cols = << >>

\* number of rows the warnings report as dropped
RECURSIVE DroppedCount(_)
DroppedCount(warns) ==
  IF warns = << >> THEN 0 ELSE Head(warns).count + DroppedCount(Tail(warns))

\* C13: a row with a missing or unparsable required cell is dropped by the
\* cleaning, before the row loop: it is absent from the cleaned frame, it is
\* counted in a warning and in no error, it adds nothing to failed, and it
\* does not make the run fail, whether skip_invalid_rows is true or false.
C13_DroppedRowsAreWarnings ==
  Cleaned =>
     LET rows == Rows
         dropped == Len(call.table) - Cardinality(rows.parsing)
     IN /\ { r.index : r \in Range(df_clean) } = rows.parsing
        /\ DroppedCount(warnings) = dropped
        /\ (warnings # << >>) <=> (dropped > 0)
        /\ \A e \in Range(errors) : (e.row - RowOffset) \in rows.parsing
        /\ failed_count <= Cardinality(rows.failing)
        /\ skipped_count = 0
        /\ (Done /\ ReachedRows /\ rows.failing = { }) =>
              (result.success /\ result.warnings = warnings)

\* C13 witness: a run with skip_invalid_rows false over two rows, one
\* dropped for a missing cell and one for an unparsable concentration, that
\* returned a success with two warnings and no error
C13_Witness ==
  /\ Done /\ ReachedRows /\ ~SkipInvalidRows
  /\ Len(call.table) = 2
  /\ df_clean = << >>
  /\ Len(result.warnings) = 2
  /\ result.success
  /\ result.errors = << >>
  /\ result.failed = 0

----------------------------------------------------------------------------
(* clean_numeric_value on its own: one call on a cell drawn from the short  *)
(* texts over an alphabet of glyphs, digits, sign, dot, exponent mark,      *)
(* blank and a letter                                                       *)

\* longest text of a cell
MaxLen == 4

CleanAlphabet == { "<", "ge", "-", ".", "1", "0", "e", " ", "x" }

CellTexts == UNION { [1..n -> CleanAlphabet] : n \in 0..MaxLen }

Cells == { NaCell } \cup { TextCell(t) : t \in CellTexts }

\* the variables of a processor that is not running
NoRun ==
  /\ upload_log = NewUploadLog(FALSE, "pending")
  /\ errors = << >>
  /\ warnings = << >>
  /\ processed_count = 0
  /\ successful_count = 0
  /\ failed_count = 0
  /\ skipped_count = 0
  /\ pc = "idle"
  /\ call = NoCall
  /\ df_clean = << >>
  /\ pos = 0
  /\ batch = 0
  /\ readings = << >>
  /\ exc = NoExc
  /\ result = NoResult

\* an empty store and no processor running
NoIngestion ==
  /\ Location = { }
  /\ SampleBatch = { }
  /\ EnvironmentalReading = { }
  /\ BatchReading = { }
  /\ NoRun

InitClean ==
  /\ NoIngestion
  /\ value \in Cells
  /\ numeric = NotCleaned
  /\ analysis = NoAnalysis
  /\ interpreting = NotInterpreting
  /\ racing = NotRacing
  /\ report = NoReport

\* one call of clean_numeric_value
CallCleanNumericValue ==
  /\ ~numeric.returned
  /\ numeric' = [returned |-> TRUE, out |-> clean_numeric_value(value)]
  /\ UNCHANGED << ingestion, value, analysis, interpreting, racing, report >>

NextClean == CallCleanNumericValue

SpecClean == InitClean /\ [][NextClean]_vars

\* A numeral: a decimal (optional minus sign, digits with at most one dot),
\* optionally followed by the exponent mark and a whole number of one digit
\* with an optional minus sign
ExponentMarks(u) == { i \in 1..Len(u) : u[i] = "e" }

Mantissa(u) ==
  IF ExponentMarks(u) = { } THEN u
  ELSE SubSeq(u, 1, (CHOOSE i \in ExponentMarks(u) : TRUE) - 1)

Exponent(u) ==
  IF ExponentMarks(u) = { } THEN << "0" >>
  ELSE SubSeq(u, (CHOOSE i \in ExponentMarks(u) : TRUE) + 1, Len(u))

IsNumeral(u) ==
  /\ Range(u) \subseteq Digits \cup { ".", "-", "e" }
  /\ Cardinality(ExponentMarks(u)) <= 1
  /\ ~ParseFloat(Mantissa(u)).nan
  /\ ~ParseFloat(Exponent(u)).nan
  /\ "." \notin Range(Exponent(u))
  /\ Len(FilterChars(Exponent(u), Digits)) = 1

RECURSIVE TenTo(_)
TenTo(k) == IF k = 0 THEN 1 ELSE 10 * TenTo(k - 1)

\* the number a numeral denotes
NumeralValue(u) ==
  LET m == ParseFloat(Mantissa(u))
      k == ParseFloat(Exponent(u)).n
  IN IF k >= m.e THEN NormalizeFloat(m.n * TenTo(k - m.e), 0)
     ELSE NormalizeFloat(m.n, m.e - k)

\* the text without the comparison glyph it starts with, if any
WithoutGlyph(text) ==
  IF text # << >> /\ Head(text) \in ComparisonGlyphs THEN Tail(text) ELSE text

\* C14: clean_numeric_value returns the number for a text that is a numeral,
\* with or without a comparison glyph in front, and null for a missing cell,
\* an empty text and a text without a digit.
C14_CleanNumericValue ==
  numeric.returned =>
     /\ value.na => numeric.out = NaN
     /\ (~value.na /\ FilterChars(value.text, Digits) = << >>) =>
           numeric.out = NaN
     /\ (~value.na /\ IsNumeral(WithoutGlyph(value.text))) =>
           numeric.out = NumeralValue(WithoutGlyph(value.text))

----------------------------------------------------------------------------
(* Further properties of the ingestion run                                  *)

\* the header lines in which four different columns can serve the four
\* required fields: each field gets a column of its own that contains one of
\* the field's alias substrings
Servable ==
  [h \in Headers |->
     LET cols == NormalizeColumns(h)
     IN \E f \in [1..Len(required_mappings) -> 1..Len(h)] :
           /\ \A j, k \in DOMAIN f : j # k => cols[f[j]] # cols[f[k]]
           /\ \A k \in DOMAIN f :
                 MatchesAny(cols[f[k]], required_mappings[k].possible_names)]

\* C15: a header line in which four different columns can serve the four
\* required fields passes the check for required columns, also when one of
\* its columns contains aliases of two fields; the fields reported missing
\* are a function of the header line.
C15_HeaderReconciliation ==
  (call.header \in Headers /\ pc \notin { "idle", "validate" }) =>
     /\ Servable[call.header] => exc.msg # "Missing required columns"
     /\ exc.msg = "Missing required columns" =>
           exc.args = Reconciled[call.header].missing_cols

----------------------------------------------------------------------------
(* StatisticalAnalyzer (app/dashboard/statistical_analysis.py): one call of *)
(* an analysis method over a store of readings.  A result is kept by what   *)
(* it is computed from (the analysis tables) and by the keys and counts it  *)
(* holds; the statistics themselves are functions of those tables.          *)

\* most readings in the store
MaxReadings == 5

\* measurement days, counted from 1 January: 1 and 15 January, 9 February,
\* 11 March
Jan1 == 1
Jan15 == 15
Feb9 == 40
Mar11 == 70

StoredReading(id, owner, flag, pollutant, location, day, concentration) ==
  [id |-> id, created_by |-> owner, quality_flag |-> flag,
   pollutant_type |-> pollutant, location |-> location,
   measurement_date |-> [nat |-> FALSE, day |-> day],
   concentration |-> Num(concentration), temperature |-> NaN]

\* the reading with a temperature; of the meteorological covariates, which
\* are all nullable decimals that are treated alike, the model carries this
\* one
WithTemperature(reading, degrees) ==
  [reading EXCEPT !.temperature = Num(degrees)]

\* The readings a store is made of, each with the batch it was ingested
\* into (0: a reading without a batch).  Ingestion links a reading to the one
\* batch of its run.
ReadingPool ==
  { [reading |-> WithTemperature(StoredReading(1, User, "valid", 1, 1, Jan1, 3), 0),
     batch |-> 1],
    [reading |-> WithTemperature(StoredReading(2, User, "valid", 1, 1, Jan15, 5), 5),
     batch |-> 1],
    [reading |-> WithTemperature(StoredReading(3, User, "valid", 1, 2, Feb9, 1), 7),
     batch |-> 2],
    [reading |-> StoredReading(4, User, "invalid", 1, 1, Jan15, 5), batch |-> 1],
    [reading |-> StoredReading(5, OtherUser, "valid", 1, 1, Jan15, 5), batch |-> 3],
    [reading |-> StoredReading(6, User, "valid", 2, 2, Jan1, 1), batch |-> 2],
    [reading |-> StoredReading(7, User, "questionable", 2, 1, Mar11, 5), batch |-> 0],
    [reading |-> StoredReading(8, User, "valid", 2, 1, Mar11, 3), batch |-> 0],
    [reading |-> WithTemperature(StoredReading(9, User, "valid", 1, 2, Mar11, 3), 2),
     batch |-> 2],
    [reading |-> StoredReading(10, User, "valid", 2, 1, Jan1, 1), batch |-> 1] }

Stores == { st \in SUBSET ReadingPool : Cardinality(st) <= MaxReadings }

AnalysisLocations ==
  { StoredLocation(1, SiteA, 5, 7, User), StoredLocation(2, SiteB, 1, 2, User) }

AnalysisBatches ==
  { [id |-> 1, created_by |-> User], [id |-> 2, created_by |-> User],
    [id |-> 3, created_by |-> OtherUser] }

\* A date of a filter: NaT stands for an absent key
Day(d) == [nat |-> FALSE, day |-> d]

\* filters: None (given = FALSE) or a mapping; an absent key is the empty
\* set, NaT or the empty group name
Filters(pollutant_types, locations, date_from, date_to, batches, group_name) ==
  [given |-> TRUE, pollutant_types |-> pollutant_types,
   locations |-> locations, date_from |-> date_from, date_to |-> date_to,
   batches |-> batches, group_name |-> group_name]

NoFilters ==
  [given |-> FALSE, pollutant_types |-> { }, locations |-> { },
   date_from |-> NaT, date_to |-> NaT, batches |-> { }, group_name |-> ""]

EmptyFilters == Filters({ }, { }, NaT, NaT, { }, "")
OnlyLead == Filters({ 1 }, { }, NaT, NaT, { }, "lead")
AtSiteA == Filters({ }, { 1 }, NaT, NaT, { }, "")
AtSiteB == Filters({ }, { 2 }, NaT, NaT, { }, "site b")
MidPeriod == Filters({ }, { }, Day(Jan15), Day(Feb9), { }, "")
OfBatch1 == Filters({ }, { }, NaT, NaT, { 1 }, "batch 1")
OzoneUntilJan1 == Filters({ 2 }, { }, NaT, Day(Jan1), { }, "")
OfBatch3 == Filters({ }, { }, NaT, NaT, { 3 }, "")
UntilJan1 == Filters({ }, { }, NaT, Day(Jan1), { }, "early")

FilterBags ==
  { NoFilters, EmptyFilters, OnlyLead, AtSiteA, AtSiteB, MidPeriod, OfBatch1,
    OzoneUntilJan1, OfBatch3, UntilJan1 }

\* the filters of get_data_for_analysis, applied one after the other when
\* the mapping is given and the key holds a truthy value.  The join of the
\* batches filter yields a reading once, a reading having at most one link.
ApplyFilters(q0, links, filters) ==
  LET q1 == IF filters.given /\ filters.pollutant_types # { }
            THEN { r \in q0 : r.pollutant_type \in filters.pollutant_types }
            ELSE q0
      q2 == IF filters.given /\ filters.locations # { }
            THEN { r \in q1 : r.location \in filters.locations }
            ELSE q1
      q3 == IF filters.given /\ ~filters.date_from.nat
            THEN { r \in q2 : r.measurement_date.day >= filters.date_from.day }
            ELSE q2
      q4 == IF filters.given /\ ~filters.date_to.nat
            THEN { r \in q3 : r.measurement_date.day <= filters.date_to.day }
            ELSE q3
      q5 == IF filters.given /\ filters.batches # { }
            THEN { r \in q4 : \E l \in links : /\ l.reading = r.id
                                               /\ l.batch \in filters.batches }
            ELSE q4
  IN q5

\* get_data_for_analysis without the test of the quality flag
get_data_for_analysis_any_flag(stored, links, filters) ==
  ApplyFilters({ r \in stored : r.created_by = User }, links, filters)

\* get_data_for_analysis: the query set, as the set of its readings
get_data_for_analysis(stored, links, filters) ==
  ApplyFilters({ r \in stored : /\ r.created_by = User
                                /\ r.quality_flag = "valid" },
               links, filters)

\* float(x) if x else None, for a nullable decimal: null and 0 are falsy
FloatIfTruthy(x) == IF x.nan \/ x.n = 0 THEN NaN ELSE x

\* prepare_dataframe: one row per reading of the query set
\* (lines 59-67: the covariates and the standards pass through the test)
prepare_dataframe(queryset) ==
  { [id |-> r.id,
     location_id |-> r.location,
     pollutant_id |-> r.pollutant_type,
     concentration |-> r.concentration,
     measurement_date |-> r.measurement_date,
     temperature |-> FloatIfTruthy(r.temperature),
     who_standard |-> FloatIfTruthy(PollutantType[r.pollutant_type].who_standard),
     nesrea_standard |-> FloatIfTruthy(PollutantType[r.pollutant_type].nesrea_standard),
     epa_standard |-> FloatIfTruthy(PollutantType[r.pollutant_type].epa_standard)] :
    r \in queryset }

\* a > b for two floats
Greater(a, b) == a.n * TenTo(b.e) > b.n * TenTo(a.e)

\* the rows of a table for one pollutant
OfPollutant(df, pollutant) == { row \in df : row.pollutant_id = pollutant }

\* df['pollutant_name'].unique(), as a set
Pollutants(df) == { row.pollutant_id : row \in df }

\* a result mapping that holds the key 'error'
ErrorResult(message) ==
  [raised |-> "", has_error |-> TRUE, error |-> message, sections |-> { },
   pollutants |-> { }, data |-> << >>, detail |-> << >>]

\* any other result mapping: its keys (sections by name, pollutants by id),
\* the tables it is computed from and what it holds for each pollutant
Result(sections, pollutants, data, detail) ==
  [raised |-> "", has_error |-> FALSE, error |-> "", sections |-> sections,
   pollutants |-> pollutants, data |-> data, detail |-> detail]

\* a call that raises
RaisedResult(exception) ==
  [raised |-> exception, has_error |-> FALSE, error |-> "", sections |-> { },
   pollutants |-> { }, data |-> << >>, detail |-> << >>]

\* the analysis table of a filter mapping
FilteredTable(stored, links, filters) ==
  prepare_dataframe(get_data_for_analysis(stored, links, filters))

\* descriptive_statistics that goes on with an empty table and fails on the
\* date range of no rows
descriptive_statistics_unguarded(stored, links, filters) ==
  LET df == FilteredTable(stored, links, filters)
  IN IF df = { } THEN RaisedResult("ValueError")
     ELSE Result({ "overall", "by_pollutant", "by_location" },
                 Pollutants(df), << df >>, << >>)

\* descriptive_statistics
descriptive_statistics(stored, links, filters) ==
  LET df == FilteredTable(stored, links, filters)
  IN IF df = { } THEN ErrorResult("No data available for analysis")
     ELSE Result({ "overall", "by_pollutant", "by_location" },
                 Pollutants(df), << df >>, << >>)

\* t_test_analysis: a pollutant gets a result when each group has at least
\* two observations of it
t_test_analysis(stored, links, group1_filters, group2_filters, test_type) ==
  LET df1 == FilteredTable(stored, links, group1_filters)
      df2 == FilteredTable(stored, links, group2_filters)
      common_pollutants == Pollutants(df1) \cap Pollutants(df2)
      tested == { p \in common_pollutants :
                    /\ Cardinality(OfPollutant(df1, p)) >= 2
                    /\ Cardinality(OfPollutant(df2, p)) >= 2 }
  IN IF df1 = { } \/ df2 = { }
     THEN ErrorResult("Insufficient data for t-test analysis")
     ELSE Result({ }, tested, << df1, df2 >>,
                 [p \in tested |->
                    [test_type |-> IF test_type = "independent"
                                   THEN "Independent t-test"
                                   ELSE "Paired t-test",
                     n1 |-> Cardinality(OfPollutant(df1, p)),
                     n2 |-> Cardinality(OfPollutant(df2, p))]])

\* the positions 1..n that satisfy Test, in ascending order
Selected(n, Test(_)) == SelectSeq([i \in 1..n |-> i], Test)

\* filters.get('group_name', f'Group {i+1}') for the group at position i
GroupName(filters, i) ==
  IF filters.group_name # "" THEN [given |-> TRUE, name |-> filters.group_name, position |-> 0]
  ELSE [given |-> FALSE, name |-> "Group", position |-> i]

\* anova_analysis; significant tells whether the p-value of a pollutant's
\* test is below 0.05.  The name of a non-empty group is read with
\* filters.get, which None does not have.
anova_analysis(stored, links, group_filters_list, significant) ==
  LET tables == [i \in 1..Len(group_filters_list) |->
                   FilteredTable(stored, links, group_filters_list[i])]
      NonEmpty(i) == tables[i] # { }
      kept == Selected(Len(group_filters_list), NonEmpty)
      groups_data == [k \in 1..Len(kept) |-> tables[kept[k]]]
      group_names == [k \in 1..Len(kept) |->
                        GroupName(group_filters_list[kept[k]], kept[k])]
      common_pollutants ==
        { p \in Pollutants(groups_data[1]) :
            \A k \in 1..Len(kept) : p \in Pollutants(groups_data[k]) }
      Enough(p) ==
        LET Test(k) == Cardinality(OfPollutant(groups_data[k], p)) >= 2
        IN Selected(Len(kept), Test)
      tested == { p \in common_pollutants : Len(Enough(p)) >= 2 }
  IN IF \E i \in 1..Len(group_filters_list) :
           tables[i] # { } /\ ~group_filters_list[i].given
     THEN RaisedResult("AttributeError")
     ELSE IF Len(kept) < 2
     THEN ErrorResult("Need at least 2 groups for ANOVA analysis")
     ELSE Result({ }, tested, tables,
                 [p \in tested |->
                    LET used == Enough(p)
                    IN [group_stats |-> [k \in 1..Len(used) |->
                                           group_names[used[k]]],
                        post_hoc |->
                          IF significant /\ Len(used) > 2
                          THEN { [group1 |-> group_names[pr[1]],
                                  group2 |-> group_names[pr[2]],
                                  compared |-> << kept[used[pr[1]]],
                                                  kept[used[pr[2]]] >>] :
                                 pr \in { q \in (1..Len(used)) \X (1..Len(used)) :
                                            q[1] < q[2] } }
                          ELSE { }]])

\* the rows of a pollutant that are left of [[factor, 'concentration']]
\* after dropna()
WithFactor(df, pollutant) ==
  { row \in OfPollutant(df, pollutant) : ~row.temperature.nan }

\* correlation_analysis: the pollutant correlations need two pollutant
\* columns in the pivot table; a pollutant is correlated with a factor when
\* more than two of its rows hold the factor
correlation_analysis(stored, links, filters) ==
  LET df == FilteredTable(stored, links, filters)
  IN IF df = { }
     THEN ErrorResult("No data available for correlation analysis")
     ELSE Result({ "environmental_correlations" } \cup
                   (IF Cardinality(Pollutants(df)) > 1
                    THEN { "pollutant_correlations" } ELSE { }),
                 Pollutants(df), << df >>,
                 [p \in Pollutants(df) |->
                    [factor \in { f \in { "temperature" } :
                                    Cardinality(WithFactor(df, p)) > 2 } |->
                       [n_observations |-> Cardinality(WithFactor(df, p))]]])

\* the month of a day of the first quarter
MonthOf(day) == IF day <= 31 THEN 1 ELSE IF day <= 59 THEN 2 ELSE 3

\* the period of a day: the date, the week (1 January being a Monday), the
\* month, and the year for any other time_period
Period(day, time_period) ==
  IF time_period = "daily" THEN day
  ELSE IF time_period = "weekly" THEN (day - 1) \div 7 + 1
  ELSE IF time_period = "monthly" THEN MonthOf(day)
  ELSE 1

\* the periods in which a pollutant was measured
Periods(df, pollutant, time_period) ==
  { Period(row.measurement_date.day, time_period) :
      row \in OfPollutant(df, pollutant) }

\* n * n times the sum of squared deviations of 0 .. n-1 from their mean:
\* the sum over i of (n * i - (0 + ... + (n-1))) squared
RECURSIVE SumTo(_)
SumTo(n) == IF n <= 0 THEN 0 ELSE (n - 1) + SumTo(n - 1)

RECURSIVE SquaredDeviations(_, _)
SquaredDeviations(n, i) ==
  IF i >= n THEN 0
  ELSE (n * i - SumTo(n)) * (n * i - SumTo(n)) + SquaredDeviations(n, i + 1)

\* what trend_analysis holds for a pollutant with n periods, with the two
\* numbers the standard error of the slope is divided by: n - 2 and the sum
\* of squared deviations of period_numeric (here times n * n)
TrendOf(time_period, n) ==
  [time_period |-> time_period, n_periods |-> n,
   degrees_of_freedom |-> n - 2,
   squared_deviations |-> SquaredDeviations(n, 0)]

\* trend_analysis that fits a line through two periods as well
trend_analysis_from_two_periods(stored, links, filters, time_period) ==
  LET df == FilteredTable(stored, links, filters)
      tested == { p \in Pollutants(df) :
                    Cardinality(Periods(df, p, time_period)) >= 2 }
  IN IF df = { } THEN ErrorResult("No data available for trend analysis")
     ELSE Result({ }, tested, << df >>,
                 [p \in tested |->
                    TrendOf(time_period,
                            Cardinality(Periods(df, p, time_period)))])

\* trend_analysis: a pollutant gets a result when it has three periods
trend_analysis(stored, links, filters, time_period) ==
  LET df == FilteredTable(stored, links, filters)
      tested == { p \in Pollutants(df) :
                    Cardinality(Periods(df, p, time_period)) >= 3 }
  IN IF df = { } THEN ErrorResult("No data available for trend analysis")
     ELSE Result({ }, tested, << df >>,
                 [p \in tested |->
                    TrendOf(time_period,
                            Cardinality(Periods(df, p, time_period)))])

\* the columns of the analysis table that hold the standards
Standards == { "who_standard", "nesrea_standard", "epa_standard" }

\* compliance_analysis: for each pollutant, an entry for each standard that
\* is not null in the table
compliance_analysis(stored, links, filters) ==
  LET df == FilteredTable(stored, links, filters)
      Entry(p, standard) ==
        LET pollutant_data == OfPollutant(df, p)
            standard_value == (CHOOSE row \in pollutant_data : TRUE)[standard]
            n_exceedances == Cardinality({ row \in pollutant_data :
                               Greater(row.concentration, standard_value) })
        IN [standard_value |-> standard_value,
            total_measurements |-> Cardinality(pollutant_data),
            exceedances |-> n_exceedances,
            compliance_status |-> IF n_exceedances > 0
                                  THEN "Non-compliant" ELSE "Compliant"]
  IN IF df = { }
     THEN ErrorResult("No data available for compliance analysis")
     ELSE Result({ }, Pollutants(df), << df >>,
                 [p \in Pollutants(df) |->
                    [standard \in { st \in Standards :
                                      \E row \in OfPollutant(df, p) :
                                         ~row[st].nan } |->
                       Entry(p, standard)]])

\* _find_optimal_clusters for a matrix of n rows: 2 for fewer than 4 rows
\* or fewer than 3 inertias, otherwise a number from 2 up that the inertias
\* decide, capped by max_k
find_optimal_clusters(n) ==
  LET max_k == IF n - 1 < 10 THEN n - 1 ELSE 10
  IN IF n < 4 \/ max_k < 3 THEN { 2 }
     ELSE { IF k < max_k THEN k ELSE max_k : k \in 2..(max_k - 1) }

\* multivariate_analysis with optimal_k clusters: KMeans raises ValueError
\* when the matrix has fewer rows than clusters
multivariate_analysis(stored, links, filters, optimal_k) ==
  LET df == FilteredTable(stored, links, filters)
      index == { << row.location_id, row.measurement_date >> : row \in df }
  IN IF df = { }
     THEN ErrorResult("No data available for multivariate analysis")
     ELSE IF Cardinality(Pollutants(df)) < 2
     THEN ErrorResult("Need at least 2 pollutants for multivariate analysis")
     ELSE IF Cardinality(index) < optimal_k THEN RaisedResult("ValueError")
     ELSE Result({ "pca", "clustering" }, Pollutants(df), << df >>, << >>)

\* the arguments of the calls
TimePeriods == { "daily", "monthly", "yearly" }

TestTypes == { "independent", "paired" }

GroupPairs ==
  { << AtSiteA, AtSiteB >>, << OnlyLead, OnlyLead >>, << NoFilters, OfBatch3 >>,
    << OfBatch1, EmptyFilters >> }

GroupLists ==
  { << AtSiteA, AtSiteB >>, << OnlyLead, EmptyFilters >>,
    << OfBatch3, EmptyFilters >>, << AtSiteB, OfBatch1, OnlyLead >>,
    << EmptyFilters, EmptyFilters, OnlyLead >>,
    << UntilJan1, AtSiteA, AtSiteB, OnlyLead >> }

\* the record of a call: the method, its filter mappings, its other
\* argument, what the data decide besides the tables, and the result
Called(method, filters, option, outcome, returned) ==
  [called |-> TRUE, method |-> method, filters |-> filters,
   option |-> option, outcome |-> outcome, result |-> returned]

\* a store of readings with their batch links, and an analyzer of the user
InitAnalysis ==
  /\ NoRun
  /\ Location = AnalysisLocations
  /\ SampleBatch = AnalysisBatches
  /\ \E st \in Stores :
        /\ EnvironmentalReading = { e.reading : e \in st }
        /\ BatchReading = { [batch |-> e.batch, reading |-> e.reading.id] :
                              e \in { x \in st : x.batch # 0 } }
  /\ value = NaCell
  /\ numeric = NotCleaned
  /\ analysis = NoAnalysis
  /\ interpreting = NotInterpreting
  /\ racing = NotRacing
  /\ report = NoReport

DescriptiveStatistics ==
  /\ ~analysis.called
  /\ \E f \in FilterBags :
        analysis' = Called("descriptive_statistics", << f >>, "", 0,
                      descriptive_statistics(EnvironmentalReading,
                                             BatchReading, f))
  /\ UNCHANGED << ingestion, cleaning, interpreting, racing, report >>

TTestAnalysis ==
  /\ ~analysis.called
  /\ \E g \in GroupPairs, tt \in TestTypes :
        analysis' = Called("t_test_analysis", g, tt, 0,
                      t_test_analysis(EnvironmentalReading, BatchReading,
                                      g[1], g[2], tt))
  /\ UNCHANGED << ingestion, cleaning, interpreting, racing, report >>

AnovaAnalysis ==
  /\ ~analysis.called
  /\ \E gs \in GroupLists, significant \in BOOLEAN :
        analysis' = Called("anova_analysis", gs, "Group",
                      IF significant THEN 1 ELSE 0,
                      anova_analysis(EnvironmentalReading, BatchReading,
                                     gs, significant))
  /\ UNCHANGED << ingestion, cleaning, interpreting, racing, report >>

CorrelationAnalysis ==
  /\ ~analysis.called
  /\ \E f \in FilterBags :
        analysis' = Called("correlation_analysis", << f >>, "", 0,
                      correlation_analysis(EnvironmentalReading,
                                           BatchReading, f))
  /\ UNCHANGED << ingestion, cleaning, interpreting, racing, report >>

TrendAnalysis ==
  /\ ~analysis.called
  /\ \E f \in FilterBags, tp \in TimePeriods :
        analysis' = Called("trend_analysis", << f >>, tp, 0,
                      trend_analysis(EnvironmentalReading, BatchReading,
                                     f, tp))
  /\ UNCHANGED << ingestion, cleaning, interpreting, racing, report >>

ComplianceAnalysis ==
  /\ ~analysis.called
  /\ \E f \in FilterBags :
        analysis' = Called("compliance_analysis", << f >>, "", 0,
                      compliance_analysis(EnvironmentalReading,
                                          BatchReading, f))
  /\ UNCHANGED << ingestion, cleaning, interpreting, racing, report >>

MultivariateAnalysis ==
  /\ ~analysis.called
  /\ \E f \in FilterBags :
        LET df == FilteredTable(EnvironmentalReading, BatchReading, f)
            n == Cardinality({ << row.location_id, row.measurement_date >> :
                                 row \in df })
        IN \E k \in find_optimal_clusters(n) :
              analysis' = Called("multivariate_analysis", << f >>, "", k,
                            multivariate_analysis(EnvironmentalReading,
                                                  BatchReading, f, k))
  /\ UNCHANGED << ingestion, cleaning, interpreting, racing, report >>

NextAnalysis ==
  \/ DescriptiveStatistics
  \/ TTestAnalysis
  \/ AnovaAnalysis
  \/ CorrelationAnalysis
  \/ TrendAnalysis
  \/ ComplianceAnalysis
  \/ MultivariateAnalysis

SpecAnalysis == InitAnalysis /\ [][NextAnalysis]_vars

----------------------------------------------------------------------------
(* Properties of the analyses                                               *)

\* the reading satisfies every filter the mapping supplies: pollutant
\* types, locations, first and last day (both included), batches
Meets(r, filters) ==
  filters.given =>
     /\ filters.pollutant_types # { } =>
           r.pollutant_type \in filters.pollutant_types
     /\ filters.locations # { } => r.location \in filters.locations
     /\ ~filters.date_from.nat =>
           r.measurement_date.day >= filters.date_from.day
     /\ ~filters.date_to.nat => r.measurement_date.day <= filters.date_to.day
     /\ filters.batches # { } =>
           \E l \in BatchReading : l.reading = r.id /\ l.batch \in filters.batches

\* the user's own valid readings
OwnValid ==
  { r \in EnvironmentalReading :
      r.created_by = User /\ r.quality_flag = "valid" }

\* the own valid readings that satisfy the filters
Qualifying(filters) == { r \in OwnValid : Meets(r, filters) }

\* the result of the recorded call over another set of readings
Reanalysis(stored) ==
  LET f == analysis.filters
      m == analysis.method
  IN CASE m = "descriptive_statistics" ->
            descriptive_statistics(stored, BatchReading, f[1])
       [] m = "t_test_analysis" ->
            t_test_analysis(stored, BatchReading, f[1], f[2], analysis.option)
       [] m = "anova_analysis" ->
            anova_analysis(stored, BatchReading, f, analysis.outcome = 1)
       [] m = "correlation_analysis" ->
            correlation_analysis(stored, BatchReading, f[1])
       [] m = "trend_analysis" ->
            trend_analysis(stored, BatchReading, f[1], analysis.option)
       [] m = "compliance_analysis" ->
            compliance_analysis(stored, BatchReading, f[1])
       [] m = "multivariate_analysis" ->
            multivariate_analysis(stored, BatchReading, f[1], analysis.outcome)

\* C16: each table an analysis computes over holds exactly the user's own
\* valid readings that satisfy the filters of that table, and the result is
\* the one the same call gives on a store without the readings of other
\* users and without the readings whose quality flag is not 'valid'.
C16_OwnValidFilteredReadings ==
  analysis.called =>
     /\ \A i \in 1..Len(analysis.result.data) :
           { row.id : row \in analysis.result.data[i] }
              = { r.id : r \in Qualifying(analysis.filters[i]) }
     /\ analysis.result = Reanalysis(OwnValid)

\* C16 witness: a compliance analysis of lead over a store that holds, next
\* to a valid reading of the user, a reading of another user and an invalid
\* reading of lead, both left out of the table
C16_Witness ==
  /\ analysis.called
  /\ analysis.method = "compliance_analysis"
  /\ analysis.filters = << OnlyLead >>
  /\ ~analysis.result.has_error
  /\ Cardinality(analysis.result.data[1]) = 1
  /\ \E r \in EnvironmentalReading :
        r.created_by = OtherUser /\ r.pollutant_type = 1
  /\ \E r \in EnvironmentalReading :
        r.created_by = User /\ r.quality_flag = "invalid" /\ r.pollutant_type = 1

\* the user's valid readings of a pollutant that satisfy the filters
QualifyingOf(filters, pollutant) ==
  { r \in Qualifying(filters) : r.pollutant_type = pollutant }

\* the standards a pollutant type defines
Defined(pollutant) ==
  { st \in Standards : ~PollutantType[pollutant][st].nan }

\* C17: a compliance analysis that returns results holds, for each pollutant
\* with readings and each standard the pollutant type defines, an entry whose
\* exceedance count is the number of the user's valid filtered readings of
\* the pollutant with a concentration strictly greater than the standard, and
\* whose status is 'Compliant' exactly when that count is 0.
C17_ExceedanceCount ==
  (/\ analysis.called
   /\ analysis.method = "compliance_analysis"
   /\ ~analysis.result.has_error)
  => \A p \in analysis.result.pollutants :
       \A st \in Defined(p) :
          /\ st \in DOMAIN analysis.result.detail[p]
          /\ LET entry == analysis.result.detail[p][st]
                 count == Cardinality(
                            { r \in QualifyingOf(analysis.filters[1], p) :
                                Greater(r.concentration, PollutantType[p][st]) })
             IN /\ entry.exceedances = count
                /\ (entry.compliance_status = "Compliant") <=> (count = 0)

\* the positions of the filter mappings of the call whose filtered reading
\* set is not empty
NonEmptyGroups ==
  { i \in 1..Len(analysis.filters) : Qualifying(analysis.filters[i]) # { } }

\* the call has no data: an empty filtered set, for the t-test an empty
\* group, for the analysis of variance fewer than two non-empty groups
NoData ==
  CASE analysis.method = "t_test_analysis" -> NonEmptyGroups # { 1, 2 }
    [] analysis.method = "anova_analysis" -> Cardinality(NonEmptyGroups) < 2
    [] OTHER -> NonEmptyGroups = { }

\* C18: a call without data does not raise and returns a mapping with the
\* key 'error'; for descriptive_statistics the message is 'No data available
\* for analysis'.
C18_NoDataGivesError ==
  (analysis.called /\ NoData)
  => /\ analysis.result.raised = ""
     /\ analysis.result.has_error
     /\ analysis.method = "descriptive_statistics"
           => analysis.result.error = "No data available for analysis"

\* C18 witness: descriptive statistics over a store that holds a valid
\* reading of the user, with filters that no reading of the user satisfies
C18_Witness ==
  /\ analysis.called
  /\ analysis.method = "descriptive_statistics"
  /\ OwnValid # { }
  /\ NoData
  /\ analysis.result.has_error

\* the number of the user's valid readings of a pollutant in the filtered
\* set of the mapping at position i of the call
Observations(i, pollutant) ==
  Cardinality(QualifyingOf(analysis.filters[i], pollutant))

\* the pollutant can be tested by the call: two observations in each group
\* of the t-test, two groups of two observations in the analysis of
\* variance, three periods with an observation in the trend analysis
Testable(pollutant) ==
  CASE analysis.method = "t_test_analysis" ->
         Observations(1, pollutant) >= 2 /\ Observations(2, pollutant) >= 2
    [] analysis.method = "anova_analysis" ->
         Cardinality({ i \in 1..Len(analysis.filters) :
                         Observations(i, pollutant) >= 2 }) >= 2
    [] analysis.method = "trend_analysis" ->
         Cardinality({ Period(r.measurement_date.day, analysis.option) :
                         r \in QualifyingOf(analysis.filters[1], pollutant) }) >= 3
    [] OTHER -> TRUE

\* C19: a t-test, an analysis of variance or a trend analysis that has data
\* but no pollutant it can test returns a mapping with the key 'error'.
C19_TooSmallGivesError ==
  (/\ analysis.called
   /\ analysis.method \in { "t_test_analysis", "anova_analysis", "trend_analysis" }
   /\ ~NoData
   /\ \A pollutant \in 1..Len(PollutantType) : ~Testable(pollutant))
  => analysis.result.has_error

----------------------------------------------------------------------------
(* _interpret_t_test on its own                                             *)

\* Cohen's d ranges over the hundredths from -MaxD to MaxD
MaxD == 100

\* p-values, in thousandths, around the significance level 0.05
PValues == { 0, 49, 50, 51, 1000 }

\* group means
Means == { 1, 3, 5 }

\* The arguments t_test_analysis passes: d has the sign of mean1 - mean2,
\* or is 0 when the pooled standard deviation is not positive
InterpretArguments ==
  { a \in [p_value : PValues, cohens_d : (0 - MaxD)..MaxD,
           mean1 : Means, mean2 : Means] :
      /\ a.cohens_d > 0 => a.mean1 > a.mean2
      /\ a.cohens_d < 0 => a.mean1 < a.mean2 }

\* abs()
Abs(x) == IF x < 0 THEN 0 - x ELSE x

\* _interpret_t_test that compares d itself with the thresholds
_interpret_t_test_signed(p_value, cohens_d, mean1, mean2) ==
  [significance |-> IF p_value < 50 THEN "significant" ELSE "not significant",
   effect_size |-> IF cohens_d < 20 THEN "negligible"
                   ELSE IF cohens_d < 50 THEN "small"
                   ELSE IF cohens_d < 80 THEN "medium"
                   ELSE "large",
   direction |-> IF mean1 > mean2 THEN "higher" ELSE "lower"]

\* _interpret_t_test: the three phrases the sentence is built from
_interpret_t_test(p_value, cohens_d, mean1, mean2) ==
  [significance |-> IF p_value < 50 THEN "significant" ELSE "not significant",
   effect_size |-> IF Abs(cohens_d) < 20 THEN "negligible"
                   ELSE IF Abs(cohens_d) < 50 THEN "small"
                   ELSE IF Abs(cohens_d) < 80 THEN "medium"
                   ELSE "large",
   direction |-> IF mean1 > mean2 THEN "higher" ELSE "lower"]

InitInterpret ==
  /\ NoIngestion
  /\ value = NaCell
  /\ numeric = NotCleaned
  /\ analysis = NoAnalysis
  /\ racing = NotRacing
  /\ report = NoReport
  /\ \E a \in InterpretArguments :
        interpreting = [called |-> FALSE, arguments |-> a,
                        interpretation |-> [significance |-> "",
                                            effect_size |-> "",
                                            direction |-> ""]]

InterpretTTest ==
  /\ ~interpreting.called
  /\ interpreting' =
       [interpreting EXCEPT
          !.called = TRUE,
          !.interpretation =
             _interpret_t_test(interpreting.arguments.p_value,
                               interpreting.arguments.cohens_d,
                               interpreting.arguments.mean1,
                               interpreting.arguments.mean2)]
  /\ UNCHANGED << ingestion, cleaning, analysis, racing, report >>

NextInterpret == InterpretTTest

SpecInterpret == InitInterpret /\ [][NextInterpret]_vars

\* C20: the effect-size label of the t-test is 'large' exactly when
\* |d| >= 0.8, 'medium' exactly when 0.5 <= |d| < 0.8, 'small' exactly when
\* 0.2 <= |d| < 0.5 and 'negligible' exactly when |d| < 0.2, for positive
\* and negative d and at each threshold.
C20_EffectSizeLabel ==
  interpreting.called =>
     LET d == interpreting.arguments.cohens_d
         magnitude == IF d < 0 THEN 0 - d ELSE d
         label == interpreting.interpretation.effect_size
     IN /\ (label = "large") <=> (magnitude >= 80)
        /\ (label = "medium") <=> (50 <= magnitude /\ magnitude < 80)
        /\ (label = "small") <=> (20 <= magnitude /\ magnitude < 50)
        /\ (label = "negligible") <=> (magnitude < 20)

\* C20 witness: d = -0.8, on the threshold and negative, is labelled large
C20_Witness ==
  /\ interpreting.called
  /\ interpreting.arguments.cohens_d = 0 - 80
  /\ interpreting.interpretation.effect_size = "large"

----------------------------------------------------------------------------
(* Further properties of the ingestion run: messages, counts, records      *)

\* the cause in a row's error message is one that the row at data position
\* p (1-based) of the uploaded table can give
CauseOfRow(cause, p) ==
  LET row == call.table[p]
  IN /\ cause # NoExc
     /\ cause.msg = "Location not found and auto-creation disabled"
           => cause.args = << row.location.text >>
     /\ cause.msg = "Pollutant type not found"
           => cause.args = << row.pollutant.text >>
     /\ cause.msg = "Invalid concentration value"
           => clean_numeric_value(row.concentration).n < 0

\* C23: the error message of a failed row is 'Row k: cause' where k - 1 is
\* the 1-based position of the row among the data rows of the uploaded file,
\* also when earlier rows were dropped during cleaning; the messages come in
\* the order of the rows.
C23_RowErrorNamesFilePosition ==
  errors # << >> =>
     LET failing == Rows.failing
     IN \A k \in 1..Len(errors) :
          LET p == errors[k].row - 1
          IN /\ p \in 1..Len(call.table)
             /\ (p - 1) \in failing
             /\ CauseOfRow(errors[k].text, p)
             /\ k > 1 => errors[k - 1].row < errors[k].row

\* C23 witness: a finished run over two rows, the first dropped during
\* cleaning, the second failed and reported as 'Row 3'
C23_Witness ==
  /\ Done
  /\ Len(call.table) = 2
  /\ Len(df_clean) = 1
  /\ df_clean[1].index = 1
  /\ Len(errors) = 1
  /\ errors[1].row = 3

\* C27: in a success result, processed = successful + failed + skipped,
\* processed is the number of rows that survived cleaning, so that a row
\* dropped during cleaning is counted nowhere, and skipped is 0.
C27_CountsAddUp ==
  (Done /\ result.success) =>
     /\ result.processed = result.successful + result.failed + result.skipped
     /\ result.processed = Cardinality(Rows.parsing)
     /\ result.skipped = 0

\* C27 witness: a success over a table of two rows, one dropped during
\* cleaning and one failed
C27_Witness ==
  /\ Done /\ result.success
  /\ Len(call.table) = 2
  /\ result.processed = 1
  /\ result.failed = 1
  /\ result.successful = 0
  /\ warnings # << >>

\* C28: a run that returns a success has created exactly one SampleBatch,
\* as many EnvironmentalReading records as its successful count and as many
\* BatchReading links; each link joins a reading of the run to that batch
\* and each reading has exactly one link.
C28_OneBatchOneLinkPerReading ==
  (Done /\ result.success) =>
     /\ Cardinality(SampleBatch) = 1
     /\ \A b \in SampleBatch : b.id = result.batch /\ b.created_by = User
     /\ Cardinality(EnvironmentalReading) = result.successful
     /\ Cardinality(BatchReading) = result.successful
     /\ \A l \in BatchReading :
           /\ l.batch = result.batch
           /\ \E r \in EnvironmentalReading : r.id = l.reading
     /\ \A r \in EnvironmentalReading :
           Cardinality({ l \in BatchReading : l.reading = r.id }) = 1

\* C28 witness: a success that created two readings at one location, each
\* linked to the batch of the run
C28_Witness ==
  /\ Done /\ result.success
  /\ result.successful = 2
  /\ Cardinality(EnvironmentalReading) = 2
  /\ Cardinality(BatchReading) = 2
  /\ Cardinality({ r.location : r \in EnvironmentalReading }) = 1

----------------------------------------------------------------------------
(* A second call of process_file on the same DataProcessor                 *)

\* The records of the earlier call under other keys: a primary key is a
\* fresh UUID, so no record of the next call shares one with them
Earlier(id) == 0 - (id + 1)

\* The first call of the processor that is used again: a .csv file of one
\* data row with latitude and longitude columns, no options, a complete
\* batch_data, an upload log, and no Location in the store beforehand
FirstFile ==
  /\ call.file_path = [ext |-> ".csv", readable |-> TRUE]
  /\ LatitudeCol \in Range(Reconciled[call.header].columns)
  /\ Len(call.table) = 1
  /\ call.options = << >>
  /\ "batch_name" \in call.batch_data
  /\ upload_log.given
  /\ PriorLocation = { }

\* process_file is entered again after it has returned: its arguments and
\* locals are new, the attributes of the processor are those the first call
\* left, and the records of the first call are in the store
ProcessAnotherFile ==
  /\ pc = "done"
  /\ call.nth = 1
  /\ FirstFile
  /\ pc' = "idle"
  /\ call' = [NoCall EXCEPT !.nth = 2]
  /\ df_clean' = << >>
  /\ pos' = 0
  /\ batch' = 0
  /\ readings' = << >>
  /\ exc' = NoExc
  /\ result' = NoResult
  /\ Location' = { [l EXCEPT !.fresh = FALSE] : l \in Location }
  /\ EnvironmentalReading' =
       { [r EXCEPT !.id = Earlier(r.id)] : r \in EnvironmentalReading }
  /\ BatchReading' =
       { [l EXCEPT !.reading = Earlier(l.reading)] : l \in BatchReading }
  /\ UNCHANGED << SampleBatch, upload_log, errors, warnings, counters >>
  /\ UNCHANGED aside

NextReuse ==
  \/ Next
  \/ ProcessAnotherFile

SpecReuse == Init /\ [][NextReuse]_vars

\* C24: what a call of process_file returns, and writes to the upload log,
\* describes the file of that call only, also on a processor that has
\* processed a file before: the processed count is the number of its rows
\* that survived cleaning, the errors are those of its failed rows, and it
\* has at most one warning for each of the two cleaning steps.
C24_ResultDescribesOwnFile ==
  (Done /\ result.returned) =>
     /\ Len(result.errors) <= Len(call.table)
     /\ \A k \in 1..Len(result.errors) :
           result.errors[k].row - 1 \in 1..Len(call.table)
     /\ Len(result.warnings) <= 2
     /\ \A j, k \in 1..Len(result.warnings) :
           result.warnings[j].msg = result.warnings[k].msg => j = k
     /\ result.success =>
           /\ result.processed = Cardinality(Rows.parsing)
           /\ result.successful + result.failed + result.skipped
                 = result.processed
           /\ result.failed = Len(result.errors)
           /\ upload_log.given =>
                 /\ upload_log.records_processed = result.processed
                 /\ upload_log.records_successful = result.successful
                 /\ upload_log.records_failed = result.failed

----------------------------------------------------------------------------
(* Two ingestion runs of one user inside get_or_create_location at the     *)
(* same time.  Each query and the insert is one statement on the store.    *)

\* the arguments of the two calls: name, latitude, longitude and
\* create_if_missing
RaceArguments ==
  { [location_name |-> a[1], latitude |-> Coord(a[2]),
     longitude |-> Coord(a[3]), create_if_missing |-> a[4]] :
      a \in { << SiteA, 5, 7, TRUE >>, << SiteA, 1, 2, TRUE >>,
              << SiteAUpper, 3, 4, TRUE >>, << SiteALoose, 0, 7, TRUE >>,
              << SiteB, 1, 2, TRUE >>, << SiteB, 3, 4, FALSE >> } }

\* a call that has not run its first query
Entered(arguments) ==
  [pc |-> "by_name", args |-> arguments, seen |-> { }, overtaken |-> FALSE,
   out |-> Returned(0)]

InitRace ==
  /\ NoRun
  /\ Location \in PriorLocations
  /\ SampleBatch = { }
  /\ EnvironmentalReading = { }
  /\ BatchReading = { }
  /\ value = NaCell
  /\ numeric = NotCleaned
  /\ analysis = NoAnalysis
  /\ interpreting = NotInterpreting
  /\ report = NoReport
  /\ racing \in [1..2 -> { Entered(a) : a \in RaceArguments }]

\* lines 274-281: the query by name; seen is the table the query ran on
LookUpByName(p) ==
  /\ racing[p].pc = "by_name"
  /\ LET q == QueryGet(LocationsByName(Location, racing[p].args.location_name))
     IN racing' = [racing EXCEPT
                     ![p].seen = Location,
                     ![p].out = IF q.exc # "DoesNotExist" THEN q ELSE @,
                     ![p].pc = IF q.exc # "DoesNotExist" THEN "returned"
                               ELSE "by_coord"]
  /\ UNCHANGED << ingestion, cleaning, analysis, interpreting, report >>

\* lines 284-295: the query by coordinates, when both are truthy
LookUpByCoord(p) ==
  /\ racing[p].pc = "by_coord"
  /\ LET a == racing[p].args
         q == IF Truthy(a.latitude) /\ Truthy(a.longitude)
              THEN QueryGet(LocationsByCoord(Location, a.latitude, a.longitude))
              ELSE Raised("DoesNotExist")
     IN racing' = [racing EXCEPT
                     ![p].out = IF q.exc # "DoesNotExist" THEN q ELSE @,
                     ![p].pc = IF q.exc # "DoesNotExist" THEN "returned"
                               ELSE IF a.create_if_missing THEN "create"
                               ELSE "returned"]
  /\ UNCHANGED << ingestion, cleaning, analysis, interpreting, report >>

\* lines 298-313: the insert.  It fails without coordinates (NOT NULL) and
\* when the user has a Location at these coordinates (unique_together);
\* overtaken tells whether the table changed since the query by name.
CreateLocation(p) ==
  /\ racing[p].pc = "create"
  /\ LET a == racing[p].args
         new == [id |-> NextLocationId(Location),
                 name |-> Strip(a.location_name),
                 latitude |-> a.latitude, longitude |-> a.longitude,
                 created_by |-> User, fresh |-> TRUE]
         refused == \/ ~(Truthy(a.latitude) /\ Truthy(a.longitude))
                    \/ LocationsByCoord(Location, a.latitude, a.longitude) # { }
     IN /\ Location' = IF refused THEN Location ELSE Location \cup { new }
        /\ racing' = [racing EXCEPT
                        ![p].out = IF refused THEN Raised("IntegrityError")
                                   ELSE Returned(new.id),
                        ![p].overtaken = (Location # racing[p].seen),
                        ![p].pc = "returned"]
  /\ UNCHANGED << SampleBatch, EnvironmentalReading, BatchReading, upload_log,
                  errors, warnings, counters, pc, call, locals, exc, result >>
  /\ UNCHANGED << cleaning, analysis, interpreting, report >>

NextRace ==
  \E p \in 1..2 :
     \/ LookUpByName(p)
     \/ LookUpByCoord(p)
     \/ CreateLocation(p)

SpecRace == InitRace /\ [][NextRace]_vars

\* two Location records of the user with the same name, as the look-up
\* compares names, at least one of them created by a call
Duplicates ==
  { pair \in Location \X Location :
      /\ pair[1].id < pair[2].id
      /\ pair[1].created_by = User
      /\ pair[2].created_by = User
      /\ Lower(pair[1].name) = Lower(pair[2].name)
      /\ pair[1].fresh \/ pair[2].fresh }

\* C25: get-or-create is a read followed by a create without a lock.  Two
\* Locations of one name for one user arise only when a call created one of
\* them after another call had changed the table between its query by name
\* and its insert; calls that run one after the other never produce them.
C25_DuplicateNeedsInterleaving ==
  \A pair \in Duplicates :
     \E p \in 1..2 :
        /\ racing[p].overtaken
        /\ racing[p].out.exc = ""
        /\ racing[p].out.id \in { pair[1].id, pair[2].id }

\* C25 witness: both calls found no Location named 'Site A' and both
\* created one
C25_Witness ==
  /\ \A p \in 1..2 : racing[p].pc = "returned" /\ racing[p].out.exc = ""
  /\ racing[1].out.id # racing[2].out.id
  /\ \E pair \in Duplicates :
        /\ pair[1].name = SiteA /\ pair[2].name = SiteA
        /\ pair[1].fresh /\ pair[2].fresh

----------------------------------------------------------------------------
(* Further properties of the analyses                                      *)

\* the periods in which the user's valid filtered readings of a pollutant
\* fall
Buckets(pollutant) ==
  { Period(r.measurement_date.day, analysis.option) :
      r \in QualifyingOf(analysis.filters[1], pollutant) }

\* C21: trend_analysis does not raise; a pollutant has a trend result
\* exactly when it has at least 3 periods, and then the degrees of freedom
\* (periods - 2) are at least 1 and the sum of squared deviations of the
\* period numbers is positive; a pollutant with exactly 2 periods has no
\* result and the call still returns.
C21_TrendNeverDividesByZero ==
  (analysis.called /\ analysis.method = "trend_analysis") =>
     /\ analysis.result.raised = ""
     /\ ~analysis.result.has_error =>
          \A pollutant \in 1..Len(PollutantType) :
             /\ pollutant \in analysis.result.pollutants
                   <=> Cardinality(Buckets(pollutant)) >= 3
             /\ pollutant \in analysis.result.pollutants =>
                   LET trend == analysis.result.detail[pollutant]
                   IN /\ trend.n_periods = Cardinality(Buckets(pollutant))
                      /\ trend.degrees_of_freedom >= 1
                      /\ trend.squared_deviations > 0

\* C21 witness: a monthly trend analysis over lead measured in three months
\* and ozone measured in two: a result for lead, none for ozone
C21_Witness ==
  /\ analysis.called
  /\ analysis.method = "trend_analysis"
  /\ analysis.option = "monthly"
  /\ analysis.result.pollutants = { 1 }
  /\ analysis.result.detail[1].n_periods = 3
  /\ Cardinality(Buckets(2)) = 2

\* the rows of the matrix multivariate_analysis clusters: the pairs of
\* location and measurement date of the user's valid filtered readings
MatrixRows ==
  { << r.location, r.measurement_date >> :
      r \in Qualifying(analysis.filters[1]) }

\* C26: when multivariate_analysis reaches the clustering, with a matrix of
\* n >= 1 rows, the cluster count k that _find_optimal_clusters returns
\* satisfies 2 <= k <= n and the k-means run with that k does not raise.
C26_ClusterCountFeasible ==
  (/\ analysis.called
   /\ analysis.method = "multivariate_analysis"
   /\ Cardinality(MatrixRows) >= 1
   /\ Cardinality({ r.pollutant_type :
                      r \in Qualifying(analysis.filters[1]) }) >= 2)
  => /\ 2 <= analysis.outcome
     /\ analysis.outcome <= Cardinality(MatrixRows)
     /\ analysis.result.raised = ""

ReadingOf(row) == CHOOSE r \in EnvironmentalReading : r.id = row.id

\* C30: a row of an analysis table holds the temperature of its reading and
\* the standards of its pollutant type as they are stored, null only when
\* the stored value is null; in correlation_analysis a pollutant is
\* correlated with temperature exactly when more than 2 of its filtered
\* readings have a stored temperature, 0 included, over all those readings.
C30_ZeroStaysZero ==
  (analysis.called /\ analysis.result.raised = "") =>
     /\ \A i \in 1..Len(analysis.result.data) :
           \A row \in analysis.result.data[i] :
              /\ row.temperature = ReadingOf(row).temperature
              /\ \A st \in Standards :
                    row[st] = PollutantType[row.pollutant_id][st]
     /\ (analysis.method = "correlation_analysis" /\ ~analysis.result.has_error)
           => \A pollutant \in analysis.result.pollutants :
                LET measured == { r \in QualifyingOf(analysis.filters[1], pollutant) :
                                    ~r.temperature.nan }
                    found == analysis.result.detail[pollutant]
                IN /\ "temperature" \in DOMAIN found
                         <=> Cardinality(measured) > 2
                   /\ "temperature" \in DOMAIN found
                         => found["temperature"].n_observations
                               = Cardinality(measured)

\* ---------------------------------------------------------------------
\* StatisticalReportGenerator
\* ---------------------------------------------------------------------

\* the keys generate_summary_report looks for, in the order of its tests
ReportKeys ==
  << "descriptive", "t_test", "anova", "correlation", "trend", "compliance" >>

\* An analysis result is a mapping: keys are its keys and flagged the keys
\* whose value is a mapping with a true 'significant' ('significant_trend'
\* for the trend analysis) entry.
Mapping(keys, flagged) == [keys |-> keys, flagged |-> flagged]

\* {'error': message}, what an analysis returns without data
ErrorMapping == Mapping({ "error" }, { })

\* the results an analysis can have returned
ResultsOf(key) ==
  { ErrorMapping } \cup
  (CASE key = "descriptive" ->
          { Mapping({ "overall", "by_pollutant", "by_location" }, { }) }
     [] key = "correlation" ->
          { Mapping({ "environmental_correlations" }, { }),
            Mapping({ "pollutant_correlations", "environmental_correlations" },
                    { }) }
     [] OTHER ->
          UNION { { Mapping(keys, flagged) :
                      flagged \in SUBSET (keys \cap { "Lead" }) } :
                    keys \in (SUBSET { "Lead", "Ozone" }) \ { { } } })

\* what analyzer_results holds for a key: nothing, or a result
Entries(key) ==
  { [supplied |-> FALSE, data |-> ErrorMapping] } \cup
  { [supplied |-> TRUE, data |-> data] : data \in ResultsOf(key) }

\* analyzer_results: a mapping from some of the keys to results
AnalyzerResults ==
  { [descriptive |-> d, t_test |-> t, anova |-> a, correlation |-> c,
     trend |-> r, compliance |-> m] :
      d \in Entries("descriptive"), t \in Entries("t_test"),
      a \in Entries("anova"), c \in Entries("correlation"),
      r \in Entries("trend"), m \in Entries("compliance") }

\* a section of the report; counted is the len(data) of the summary and
\* listed the list of significant keys (absent where the section has none)
SectionOf(title, data, counted, listed) ==
  [raised |-> "", title |-> title, content |-> data, counted |-> counted,
   listed |-> listed]

\* the section builder fails with a KeyError
KeyError(key) ==
  [raised |-> "KeyError", title |-> key, content |-> ErrorMapping,
   counted |-> 0, listed |-> { }]

\* _descriptive_section: the summary reads data['overall'][...]
_descriptive_section(data) ==
  IF "overall" \in data.keys
  THEN SectionOf("Descriptive Statistics", data, 0, { })
  ELSE KeyError("overall")

_t_test_section(data) ==
  SectionOf("T-Test Analysis", data, Cardinality(data.keys), data.flagged)

_anova_section(data) ==
  SectionOf("ANOVA Analysis", data, Cardinality(data.keys), data.flagged)

_correlation_section(data) ==
  SectionOf("Correlation Analysis", data, 0, { })

_trend_section(data) ==
  SectionOf("Temporal Trend Analysis", data, Cardinality(data.keys),
            data.flagged)

_compliance_section(data) ==
  SectionOf("Regulatory Compliance Analysis", data, 0, { })

\* the section of a key
SectionFor(key, data) ==
  CASE key = "descriptive" -> _descriptive_section(data)
    [] key = "t_test" -> _t_test_section(data)
    [] key = "anova" -> _anova_section(data)
    [] key = "correlation" -> _correlation_section(data)
    [] key = "trend" -> _trend_section(data)
    [] key = "compliance" -> _compliance_section(data)

\* the sections appended from the n-th test on; an exception of a builder
\* ends the call
RECURSIVE SectionsFrom(_, _, _)
SectionsFrom(results, n, sections) ==
  IF n > Len(ReportKeys)
  THEN [raised |-> "", keys |-> { "title", "generated_at", "sections" },
        title |-> "Environmental Data Statistical Analysis Report",
        sections |-> sections]
  ELSE IF ~results[ReportKeys[n]].supplied
  THEN SectionsFrom(results, n + 1, sections)
  ELSE LET section == SectionFor(ReportKeys[n], results[ReportKeys[n]].data)
       IN IF section.raised # ""
          THEN [raised |-> section.raised, keys |-> { }, title |-> "",
                sections |-> << >>]
          ELSE SectionsFrom(results, n + 1, Append(sections, section))

generate_summary_report(results) == SectionsFrom(results, 1, << >>)

InitReport ==
  /\ NoIngestion
  /\ value = NaCell
  /\ numeric = NotCleaned
  /\ analysis = NoAnalysis
  /\ interpreting = NotInterpreting
  /\ racing = NotRacing
  /\ \E results \in AnalyzerResults :
        report = [called |-> FALSE, results |-> results,
                  returned |-> [raised |-> "", keys |-> { }, title |-> "",
                                sections |-> << >>]]

GenerateSummaryReport ==
  /\ ~report.called
  /\ report' = [report EXCEPT !.called = TRUE,
                              !.returned = generate_summary_report(report.results)]
  /\ UNCHANGED << ingestion, cleaning, analysis, interpreting, racing >>

NextReport == GenerateSummaryReport

SpecReport == InitReport /\ [][NextReport]_vars

\* the titles of the sections of the supplied analyses, in the fixed order
RECURSIVE TitlesOf(_, _)
TitlesOf(results, n) ==
  IF n > Len(ReportKeys) THEN << >>
  ELSE (IF results[ReportKeys[n]].supplied
        THEN << CASE n = 1 -> "Descriptive Statistics"
                  [] n = 2 -> "T-Test Analysis"
                  [] n = 3 -> "ANOVA Analysis"
                  [] n = 4 -> "Correlation Analysis"
                  [] n = 5 -> "Temporal Trend Analysis"
                  [] n = 6 -> "Regulatory Compliance Analysis" >>
        ELSE << >>) \o TitlesOf(results, n + 1)

\* C22: for every subset of supplied analyses, results of the form
\* {error: message} included, generate_summary_report raises nothing and
\* returns a report with title, generation timestamp and sections, holding
\* one section per supplied analysis and no other, in the order descriptive,
\* t-test, ANOVA, correlation, trend, compliance.
C22_ReportForEverySubset ==
  report.called =>
     /\ report.returned.raised = ""
     /\ report.returned.keys = { "title", "generated_at", "sections" }
     /\ Len(report.returned.sections) = Len(TitlesOf(report.results, 1))
     /\ \A i \in 1..Len(report.returned.sections) :
           report.returned.sections[i].title = TitlesOf(report.results, 1)[i]

====
